---- MODULE Spec2Model ----
(***************************************************************************)
(* Decoding and scoring core of the table-filling NER / relation           *)
(* extraction evaluator (src/table_filling/evaluator.py) and the           *)
(* evaluation loop that drives it (src/table_filling/tabF_trainer.py).     *)
(*                                                                         *)
(* Tensors are modelled by their contents: a 1-D tensor is a sequence, a   *)
(* 2-D tensor a function on 0-based index pairs, the boolean token mask a  *)
(* function from 0-based row to the set of 0-based columns that are set.   *)
(* Python indices are kept 0-based wherever the code computes with them    *)
(* (subword positions, word indices of table cells); only the positions    *)
(* of TLA+ sequences are 1-based.                                          *)
(***************************************************************************)
EXTENDS Integers, Sequences, FiniteSets, TLC

\* ------------------------------------------------------------------ bounds
\* Words per document.
MaxWords == 3
\* Subwords per word.
MaxSubwords == 2
\* Entity types other than the reserved "no entity" type 0.
NumEntityTypes == 2
\* Largest prediction score a candidate carries (scores are 0..MaxScore).
MaxScore == 1
\* Relation types other than "no relation" (raw table labels are 0..2*types).
NumRelTypes == 1
\* Tuples per document list handed to _score.
MaxItems == 2
\* Documents handed to _score.
MaxDocs == 2
\* Candidates per document the model returns (the beam).
BeamSize == 2

\* ------------------------------------------------------- program constants
\* math.ceil(type_idx / 4): four label indices per entity type.
LabelsPerEntityType == 4
\* torch.ceil(label_idx / 2): two raw table labels (one per direction) per
\* relation type.
LabelsPerRelType == 2

VARIABLES
    pc,             \* position of the modelled caller
    word_lens,      \* the document: subwords of each word (dataset side)
    pred_types,     \* per-word entity label indices of the selected candidate
    pred_score,     \* entity score of the selected candidate
    token_mask,     \* word row -> covered subword columns
    pred_entities,  \* output of _convert_pred_entities_end
    right_rel_label,\* input reader: raw table labels that read head -> tail
    rel_preds,      \* winning raw relation label of every table cell
    rel_scores,     \* probability of the winning label of every table cell
    pred_relations, \* output of _convert_pred_relations_
    gt,             \* _score: per document, the converted ground-truth tuples
    pred,           \* _score: per document, the converted predicted tuples
    gt_flat,        \* _score: the ground-truth label stream
    pred_flat,      \* _score: the prediction label stream
    types_seen,     \* _score: the set of types seen (types)
    error,          \* the exception that ended the call, or "none"
    tp_counts,      \* history: per _score call on the relation views, its setting
                    \* and the positions with one nonzero label on both sides
    entity_scores,  \* per candidate of the beam, its entity score
    rel_logits,     \* per candidate, the raw relation logits [label, i, j]
    beam_id,        \* the candidate eval_batch selected (0-based)
    documents,      \* the dataset: its documents in order
    sample_results, \* per document, what one pass of eval_batch's loop can yield
    _epoch,         \* Evaluator._epoch
    _max_epoch,     \* Evaluator._max_epoch
    _gt_entities,   \* Evaluator._gt_entities
    _gt_relations,  \* Evaluator._gt_relations
    _pred_entities, \* Evaluator._pred_entities
    _pred_relations,\* Evaluator._pred_relations
    _beam_ids,      \* Evaluator._beam_ids
    bio_preds,      \* input reader: _bio_file['preds'], per sentence its tag count
    files,          \* the files written so far
    bio_contents,   \* the sentences written to the tagging file, each its lines
    returned,       \* the value the last call returned (None if none)
    processed,      \* history: the documents eval_batch has processed, in order
    eval_batch_size,\* args.eval_batch_size
    store_examples, \* args.store_examples
    sampler,        \* _eval: the batches the sampler has not yielded yet
    calls,          \* history: the calls _eval has made on its evaluator
    arg_entity_types,   \* the include_entity_types a caller passes
    arg_score,      \* the include_score a caller passes
    train_sample_count, \* train: train_dataset.document_count
    train_batch_size,   \* args.train_batch_size
    epochs,         \* args.epochs
    before_rel,     \* args.before_rel, as <<numerator, denominator>>
    updates_epoch,  \* train: updates per epoch
    steps_before_rel,   \* train: steps before relation supervision
    epoch,          \* train: the epoch of the for loop
    train_sampler,  \* _train_epoch: the batches the sampler has not yielded yet
    iteration,      \* _train_epoch: iteration
    global_iteration,   \* _train_epoch: global_iteration
    allow_rel,      \* _train_epoch: allow_rel of the last step
    steps           \* history: per training step run, its allow_rel

spanVars == <<word_lens, pred_types, pred_score, token_mask, pred_entities>>
relVars == <<right_rel_label, rel_preds, rel_scores, pred_relations>>
scoreVars == <<gt, pred, gt_flat, pred_flat, types_seen, error, tp_counts>>
beamVars == <<entity_scores, rel_logits, beam_id>>
dataVars == <<documents, sample_results, _epoch, _max_epoch>>
cacheVars == <<_gt_entities, _gt_relations>>
accVars == <<_pred_entities, _pred_relations, _beam_ids, bio_preds, processed>>
evaluatorVars == <<dataVars, cacheVars, accVars, files, bio_contents, returned>>
trainerVars == <<eval_batch_size, store_examples, sampler, calls>>
settingVars == <<arg_entity_types, arg_score>>
trainVars == <<train_sample_count, train_batch_size, epochs, before_rel, updates_epoch,
               steps_before_rel, epoch, train_sampler, iteration, global_iteration,
               allow_rel, steps>>
vars == <<pc, spanVars, relVars, scoreVars, beamVars, evaluatorVars, trainerVars,
          settingVars, trainVars>>

\* ----------------------------------------------------------------- helpers
Max(S) == CHOOSE x \in S : \A y \in S : y <= x

Min(S) == CHOOSE x \in S : \A y \in S : x <= y

RECURSIVE SumSeq(_)
SumSeq(s) == IF s = <<>> THEN 0 ELSE Head(s) + SumSeq(Tail(s))

\* All sequences over S of length 1..n.
SeqsUpTo(S, n) == UNION {[1..k -> S] : k \in 1..n}

\* math.ceil(a / b) for a >= 0, b > 0.
Ceil(a, b) == (a + b - 1) \div b

\* ------------------------------------------------------------- token mask
\* The mask of a document whose k-th word has lens[k] subwords: column 0 is
\* [CLS], the words follow one after another, the last column is [SEP].
\* Rows are 0-based: row 0 is [CLS], row k is word k, the matrix is square.
EncodingLength(lens) == SumSeq(lens) + 2

WordStart(lens, k) == 1 + SumSeq(SubSeq(lens, 1, k - 1))

MaskOf(lens) ==
    [r \in 0..(EncodingLength(lens) - 1) |->
        IF r = 0 THEN {0}
        ELSE IF r <= Len(lens)
             THEN WordStart(lens, r)..(WordStart(lens, r) + lens[r] - 1)
        ELSE IF r = Len(lens) + 1 THEN {EncodingLength(lens) - 1}
        ELSE {}]

WordLens == SeqsUpTo(1..MaxSubwords, MaxWords)

\* token_mask.shape[0]
MaskShape0(mask) == Cardinality(DOMAIN mask)

\* token_mask[row][1:encoding_length-1].nonzero(): the set columns of the row
\* in the coordinates of the slice, which drops column 0 and the last column.
NonzeroSliced(mask, row, encoding_length) ==
    {c - 1 : c \in {d \in mask[row] : 1 <= d /\ d < encoding_length - 1}}

\* token_mask[row].nonzero(): the set columns of the row, unsliced.
Nonzero(mask, row) == mask[row]

\* ------------------------------------------------------------ span decoder
EntityLabels == 0..(LabelsPerEntityType * NumEntityTypes)

LabelSeqs == SeqsUpTo(EntityLabels, MaxWords)

\* The loop of _convert_pred_entities_end from Python index i on; k = i + 1 is
\* the position in the sequence and the mask row of the word.
RECURSIVE EntitiesEndLoopKeepStart(_, _, _, _, _, _)
EntitiesEndLoopKeepStart(k, start, converted_preds, types, score, mask) ==
    IF k > Len(types) THEN converted_preds
    ELSE
      LET curr_token == NonzeroSliced(mask, k, MaskShape0(mask))
          type_idx   == types[k]
          curr_type  == Ceil(type_idx, LabelsPerEntityType)
          is_end     == type_idx % 2 = 0
          end        == Max(curr_token) + 2
          emitted    == IF is_end /\ curr_type # 0
                        THEN Append(converted_preds, <<start, end, curr_type, score>>)
                        ELSE converted_preds
          start2     == IF type_idx = 0 THEN Max(curr_token) + 2 ELSE start
      IN  EntitiesEndLoopKeepStart(k + 1, start2, emitted, types, score, mask)

\* A slip that leaves start where it is after an outside (label 0) token.
RECURSIVE EntitiesEndLoopNoOutsideReset(_, _, _, _, _, _)
EntitiesEndLoopNoOutsideReset(k, start, converted_preds, types, score, mask) ==
    IF k > Len(types) THEN converted_preds
    ELSE
      LET curr_token == NonzeroSliced(mask, k, MaskShape0(mask))
          type_idx   == types[k]
          curr_type  == Ceil(type_idx, LabelsPerEntityType)
          is_end     == type_idx % 2 = 0
          end        == Max(curr_token) + 2
          emitted    == IF is_end /\ curr_type # 0
                        THEN Append(converted_preds, <<start, end, curr_type, score>>)
                        ELSE converted_preds
          start1     == IF is_end /\ curr_type # 0 THEN Max(curr_token) + 2 ELSE start
          start2     == start1
      IN  EntitiesEndLoopNoOutsideReset(k + 1, start2, emitted, types, score, mask)

\* A slip that ends a span at the first subword of its last token.
RECURSIVE EntitiesEndLoopEndAtFirst(_, _, _, _, _, _)
EntitiesEndLoopEndAtFirst(k, start, converted_preds, types, score, mask) ==
    IF k > Len(types) THEN converted_preds
    ELSE
      LET curr_token == NonzeroSliced(mask, k, MaskShape0(mask))
          type_idx   == types[k]
          curr_type  == Ceil(type_idx, LabelsPerEntityType)
          is_end     == type_idx % 2 = 0
          end        == Min(curr_token) + 2
          emitted    == IF is_end /\ curr_type # 0
                        THEN Append(converted_preds, <<start, end, curr_type, score>>)
                        ELSE converted_preds
          start1     == IF is_end /\ curr_type # 0 THEN Max(curr_token) + 2 ELSE start
          start2     == IF type_idx = 0 THEN Max(curr_token) + 2 ELSE start1
      IN  EntitiesEndLoopEndAtFirst(k + 1, start2, emitted, types, score, mask)

\* A slip that types a span by the label of its first token.
RECURSIVE EntitiesEndLoopTypeOfFirst(_, _, _, _, _, _)
EntitiesEndLoopTypeOfFirst(k, start, converted_preds, types, score, mask) ==
    IF k > Len(types) THEN converted_preds
    ELSE
      LET curr_token == NonzeroSliced(mask, k, MaskShape0(mask))
          type_idx   == types[k]
          first      == Min({j \in 1..k : \A m \in j..(k - 1) : types[m] % 2 = 1})
          curr_type  == Ceil(types[first], LabelsPerEntityType)
          is_end     == type_idx % 2 = 0
          end        == Max(curr_token) + 2
          emitted    == IF is_end /\ curr_type # 0
                        THEN Append(converted_preds, <<start, end, curr_type, score>>)
                        ELSE converted_preds
          start1     == IF is_end /\ curr_type # 0 THEN Max(curr_token) + 2 ELSE start
          start2     == IF type_idx = 0 THEN Max(curr_token) + 2 ELSE start1
      IN  EntitiesEndLoopTypeOfFirst(k + 1, start2, emitted, types, score, mask)

RECURSIVE EntitiesEndLoop(_, _, _, _, _, _)
EntitiesEndLoop(k, start, converted_preds, types, score, mask) ==
    IF k > Len(types) THEN converted_preds
    ELSE
      LET curr_token == NonzeroSliced(mask, k, MaskShape0(mask))
          type_idx   == types[k]
          curr_type  == Ceil(type_idx, LabelsPerEntityType)
          is_end     == type_idx % 2 = 0
          end        == Max(curr_token) + 2
          emitted    == IF is_end /\ curr_type # 0
                        THEN Append(converted_preds, <<start, end, curr_type, score>>)
                        ELSE converted_preds
          start1     == IF is_end /\ curr_type # 0 THEN Max(curr_token) + 2 ELSE start
          start2     == IF type_idx = 0 THEN Max(curr_token) + 2 ELSE start1
      IN  EntitiesEndLoop(k + 1, start2, emitted, types, score, mask)

\* A slip that closes a span still open at the end of the sentence, as the
\* start-anchored decoder does.
ConvertPredEntitiesEndFlush(types, score, mask) ==
    LET r == EntitiesEndLoop(1, 1, <<>>, types, score, mask)
        last == types[Len(types)]
    IN  IF last % 2 = 1
        THEN Append(r, <<IF r = <<>> THEN 1 ELSE r[Len(r)][2],
                         Max(NonzeroSliced(mask, Len(types), MaskShape0(mask))) + 2,
                         Ceil(last, LabelsPerEntityType), score>>)
        ELSE r

ConvertPredEntitiesEnd(types, score, mask) ==
    EntitiesEndLoop(1, 1, <<>>, types, score, mask)

\* -------------------------------------------------------- relation decoder
\* The value a Python function returns for "no entity".
None == <<>>

\* Raw table labels: 0 is "no relation".
RelLabels == 0..(LabelsPerRelType * NumRelTypes)

\* Index pairs of an n x n tensor.
Cells(n) == (0..(n - 1)) \X (0..(n - 1))

\* Number of rows of a square tensor.
Dim(m) == Max({c[1] : c \in DOMAIN m}) + 1

\* torch.triu(m, diagonal=d): entries below the d-th diagonal become 0.
Triu(m, d) == [c \in DOMAIN m |-> IF c[2] - c[1] >= d THEN m[c] ELSE 0]

\* m.nonzero(): the index pairs of the nonzero entries of an n x n tensor in
\* row-major order, from flat index idx on.
RECURSIVE NonzeroFrom(_, _, _)
NonzeroFrom(m, n, idx) ==
    IF idx >= n * n THEN <<>>
    ELSE LET c == <<idx \div n, idx % n>>
         IN  (IF m[c] # 0 THEN <<c>> ELSE <<>>) \o NonzeroFrom(m, n, idx + 1)

NonzeroCells(m) == NonzeroFrom(m, Dim(m), 0)

\* A slip that anchors an entity at its first subword instead of its last.
FindEntityByStart(idx, mask, entities) ==
    LET span == Nonzero(mask, idx)
        hits == {k \in 1..Len(entities) : Min(span) = entities[k][1]}
    IN  IF hits = {} THEN None ELSE entities[Min(hits)]

\* A slip that takes the entity that holds the last subword of the word,
\* wherever in the entity the word is.
FindEntityCovering(idx, mask, entities) ==
    LET span == Nonzero(mask, idx)
        hits == {k \in 1..Len(entities) :
                    entities[k][1] <= Max(span) /\ Max(span) < entities[k][2]}
    IN  IF hits = {} THEN None ELSE entities[Min(hits)]

\* _find_entity: the first entity whose end boundary is one past the last
\* subword of word row idx.
FindEntity(idx, mask, entities) ==
    LET span == Nonzero(mask, idx)
        hits == {k \in 1..Len(entities) : Max(span) = entities[k][2] - 1}
    IN  IF hits = {} THEN None ELSE entities[Min(hits)]

\* A slip that reads every cell head -> tail, whatever its label.
RECURSIVE RelationsLoopOneWay(_, _, _, _, _, _, _, _)
RelationsLoopOneWay(cells, k, converted_rels, types, scores, entities, mask, right) ==
    IF k > Len(cells) THEN converted_rels
    ELSE
      LET i == cells[k][1]
          j == cells[k][2]
          label_idx     == types[<<i, j>>]
          pred_rel_type == Ceil(label_idx, LabelsPerRelType)
          head_entity   == FindEntity(i + 1, mask, entities)
          tail_entity   == FindEntity(j + 1, mask, entities)
          converted_rel == <<<<head_entity[1], head_entity[2], head_entity[3]>>,
                             <<tail_entity[1], tail_entity[2], tail_entity[3]>>,
                             pred_rel_type, scores[<<i, j>>]>>
      IN  IF head_entity = None \/ tail_entity = None
          THEN RelationsLoopOneWay(cells, k + 1, converted_rels,
                                   types, scores, entities, mask, right)
          ELSE RelationsLoopOneWay(cells, k + 1, Append(converted_rels, converted_rel),
                                   types, scores, entities, mask, right)

\* A slip that ends the loop at the first unresolved cell (break for continue).
RECURSIVE RelationsLoopBreak(_, _, _, _, _, _, _, _)
RelationsLoopBreak(cells, k, converted_rels, types, scores, entities, mask, right) ==
    IF k > Len(cells) THEN converted_rels
    ELSE
      LET i == cells[k][1]
          j == cells[k][2]
          label_idx     == types[<<i, j>>]
          pred_rel_type == Ceil(label_idx, LabelsPerRelType)
          head_idx      == IF label_idx \in right THEN i ELSE j
          tail_idx      == IF label_idx \in right THEN j ELSE i
          head_entity   == FindEntity(head_idx + 1, mask, entities)
          tail_entity   == FindEntity(tail_idx + 1, mask, entities)
          converted_rel == <<<<head_entity[1], head_entity[2], head_entity[3]>>,
                             <<tail_entity[1], tail_entity[2], tail_entity[3]>>,
                             pred_rel_type, scores[<<i, j>>]>>
      IN  IF head_entity = None \/ tail_entity = None
          THEN converted_rels
          ELSE RelationsLoopBreak(cells, k + 1, Append(converted_rels, converted_rel),
                                  types, scores, entities, mask, right)

\* The body of the loop of _convert_pred_relations_ for the k-th nonzero cell
\* and the cells after it; types is the table after torch.triu.
RECURSIVE RelationsLoop(_, _, _, _, _, _, _, _)
RelationsLoop(cells, k, converted_rels, types, scores, entities, mask, right) ==
    IF k > Len(cells) THEN converted_rels
    ELSE
      LET i == cells[k][1]
          j == cells[k][2]
          label_idx     == types[<<i, j>>]
          pred_rel_type == Ceil(label_idx, LabelsPerRelType)
          head_idx      == IF label_idx \in right THEN i ELSE j
          tail_idx      == IF label_idx \in right THEN j ELSE i
          head_entity   == FindEntity(head_idx + 1, mask, entities)
          tail_entity   == FindEntity(tail_idx + 1, mask, entities)
          converted_rel == <<<<head_entity[1], head_entity[2], head_entity[3]>>,
                             <<tail_entity[1], tail_entity[2], tail_entity[3]>>,
                             pred_rel_type, scores[<<i, j>>]>>
      IN  IF head_entity = None \/ tail_entity = None
          THEN RelationsLoop(cells, k + 1, converted_rels,
                             types, scores, entities, mask, right)
          ELSE RelationsLoop(cells, k + 1, Append(converted_rels, converted_rel),
                             types, scores, entities, mask, right)

\* A slip that leaves out torch.triu and walks the whole table.
ConvertPredRelationsNoTriu(types, scores, entities, mask, right) ==
    RelationsLoop(NonzeroCells(types), 1, <<>>,
                  types, scores, entities, mask, right)

ConvertPredRelations(types, scores, entities, mask, right) ==
    LET upper == Triu(types, 1)
    IN  RelationsLoop(NonzeroCells(upper), 1, <<>>,
                      upper, scores, entities, mask, right)

\* ------------------------------------------------------------------ scoring
\* The synthetic entity type of the untyped view: an object of its own,
\* distinct from every type of the reader. Types are modelled by their index,
\* the pseudo type by an index no reader type has.
PseudoEntityType == -1

\* t.index of a type object.
TypeIndex(t) == t

\* The members of a list.
Members(list) == {list[k] : k \in 1..Len(list)}

\* zip(a, b): as many pairs as the shorter list has.
ZipLen(a, b) == IF Len(a) <= Len(b) THEN Len(a) ELSE Len(b)

\* A slip that keeps the score of a prediction whatever include_score says.
ConvertKeepScore(t, is_entity, include_entity_types, include_score) ==
    LET c == IF ~include_entity_types
             THEN IF is_entity
                  THEN <<t[1], t[2], PseudoEntityType>>
                  ELSE <<<<t[1][1], t[1][2], PseudoEntityType>>,
                         <<t[2][1], t[2][2], PseudoEntityType>>, t[3]>>
             ELSE SubSeq(t, 1, 3)
    IN  IF Len(t) > 3 THEN Append(c, t[4]) ELSE c

\* A slip that writes the head of a relation in the place of its tail when
\* the entity types are collapsed.
ConvertTailAsHead(t, is_entity, include_entity_types, include_score) ==
    LET c == IF ~include_entity_types
             THEN IF is_entity
                  THEN <<t[1], t[2], PseudoEntityType>>
                  ELSE <<<<t[1][1], t[1][2], PseudoEntityType>>,
                         <<t[1][1], t[1][2], PseudoEntityType>>, t[3]>>
             ELSE SubSeq(t, 1, 3)
    IN  IF include_score /\ Len(t) > 3 THEN Append(c, t[4]) ELSE c

\* convert(t) of _convert_by_setting. Python tells an entity tuple from a
\* relation tuple by type(t[0]) == int; values here carry no run-time type, so
\* the caller says which kind of list it passes (is_entity).
Convert(t, is_entity, include_entity_types, include_score) ==
    LET c == IF ~include_entity_types
             THEN IF is_entity
                  THEN <<t[1], t[2], PseudoEntityType>>
                  ELSE <<<<t[1][1], t[1][2], PseudoEntityType>>,
                         <<t[2][1], t[2][2], PseudoEntityType>>, t[3]>>
             ELSE SubSeq(t, 1, 3)
    IN  IF include_score /\ Len(t) > 3 THEN Append(c, t[4]) ELSE c

ConvertList(list, is_entity, include_entity_types, include_score) ==
    [k \in 1..Len(list) |->
        Convert(list[k], is_entity, include_entity_types, include_score)]

\* _convert_by_setting: <<converted_gt, converted_pred>>.
ConvertBySetting(g, p, is_entity, include_entity_types, include_score) ==
    <<[d \in 1..ZipLen(g, p) |->
          ConvertList(g[d], is_entity, include_entity_types, include_score)],
      [d \in 1..ZipLen(g, p) |->
          ConvertList(p[d], is_entity, include_entity_types, include_score)]>>

\* The orders in which a Python set may hand out its members.
Orders(S) == {o \in [1..Cardinality(S) -> S] : \A x \in S : \E k \in DOMAIN o : o[k] = x}

\* A slip that walks the two lists one after the other instead of their union.
ScoreSampleConcat(sample_gt, sample_pred, o) ==
    [k \in 1..(Len(sample_gt) + Len(sample_pred)) |->
        LET s == (sample_gt \o sample_pred)[k]
        IN  <<IF s \in Members(sample_gt) THEN TypeIndex(s[3]) ELSE 0,
              IF s \in Members(sample_pred) THEN TypeIndex(s[3]) ELSE 0>>]

\* The inner loop of _score for one document, walking the union in order o:
\* the <<ground-truth label, prediction label>> pairs it appends.
ScoreSample(sample_gt, sample_pred, o) ==
    [k \in 1..Len(o) |->
        <<IF o[k] \in Members(sample_gt) THEN TypeIndex(o[k][3]) ELSE 0,
          IF o[k] \in Members(sample_pred) THEN TypeIndex(o[k][3]) ELSE 0>>]

\* The outer loop of _score from document d on; orders[d] is the order in
\* which the union of document d is walked.
RECURSIVE ScoreLoop(_, _, _, _)
ScoreLoop(g, p, orders, d) ==
    IF d > ZipLen(g, p) THEN <<>>
    ELSE ScoreSample(g[d], p[d], orders[d]) \o ScoreLoop(g, p, orders, d + 1)

\* The types _score collects: the third field of every tuple of the unions.
ScoreTypes(g, p) ==
    UNION {{s[3] : s \in Members(g[d]) \cup Members(p[d])} : d \in 1..ZipLen(g, p)}

\* The choices of one walking order per document, for document d and the
\* documents after it.
RECURSIVE UnionOrdersFrom(_, _, _)
UnionOrdersFrom(g, p, d) ==
    IF d > ZipLen(g, p) THEN {<<>>}
    ELSE {<<o>> \o rest : o \in Orders(Members(g[d]) \cup Members(p[d])),
                          rest \in UnionOrdersFrom(g, p, d + 1)}

UnionOrders(g, p) == UnionOrdersFrom(g, p, 1)

\* _score up to the call of _compute_metrics: the assertion, then the streams.
\* [error, gt_flat, pred_flat, types].
Score(g, p, orders) ==
    IF Len(g) # Len(p)
    THEN [error |-> "AssertionError", gt_flat |-> <<>>, pred_flat |-> <<>>, types |-> {}]
    ELSE LET pairs == ScoreLoop(g, p, orders, 1)
         IN  [error     |-> "none",
              gt_flat   |-> [k \in 1..Len(pairs) |-> pairs[k][1]],
              pred_flat |-> [k \in 1..Len(pairs) |-> pairs[k][2]],
              types     |-> ScoreTypes(g, p)]

\* ------------------------------------------------------------------ metrics
\* Scores are fractions <<numerator, denominator>> in lowest terms.
RECURSIVE Gcd(_, _)
Gcd(a, b) == IF b = 0 THEN a ELSE Gcd(b, a % b)

\* a / b, and 0 where the library divides by zero (zero_division, with a
\* warning).
Frac(a, b) == IF b = 0 \/ a = 0 THEN <<0, 1>> ELSE <<a \div Gcd(a, b), b \div Gcd(a, b)>>

FracAdd(x, y) == Frac(x[1] * y[2] + y[1] * x[2], x[2] * y[2])

\* m * 100 of a fraction, a fraction divided by a count.
Times100(x) == Frac(100 * x[1], x[2])

FracOver(x, n) == Frac(x[1], x[2] * n)

\* A slip that counts a predicted label as correct whatever the true label is.
TruePositivesIgnoringTruth(r, L) ==
    Cardinality({k \in 1..Len(r.gt_flat) : r.pred_flat[k] \in L})

\* What precision_recall_fscore_support counts for a set L of labels: the
\* positions where the label is predicted and true, predicted, true.
TruePositives(r, L) ==
    Cardinality({k \in 1..Len(r.gt_flat) : r.pred_flat[k] \in L /\ r.pred_flat[k] = r.gt_flat[k]})

Predicted(r, L) == Cardinality({k \in 1..Len(r.gt_flat) : r.pred_flat[k] \in L})

Actual(r, L) == Cardinality({k \in 1..Len(r.gt_flat) : r.gt_flat[k] \in L})

\* Measure m of a set of labels taken together: 1 precision, 2 recall, 3 F1.
Prf(r, L, m) ==
    IF m = 1 THEN Frac(TruePositives(r, L), Predicted(r, L))
    ELSE IF m = 2 THEN Frac(TruePositives(r, L), Actual(r, L))
    ELSE Frac(2 * TruePositives(r, L), Predicted(r, L) + Actual(r, L))

\* The sum over the labels of L of measure m of each label on its own.
RECURSIVE PrfSum(_, _, _)
PrfSum(r, L, m) ==
    IF L = {} THEN <<0, 1>>
    ELSE LET l == CHOOSE x \in L : TRUE
         IN  FracAdd(Prf(r, {l}, m), PrfSum(r, L \ {l}, m))

\* average='micro' and average='macro' over the labels of L, times 100.
MicroMacro(r, L) ==
    <<Times100(Prf(r, L, 1)), Times100(Prf(r, L, 2)), Times100(Prf(r, L, 3)),
      Times100(FracOver(PrfSum(r, L, 1), Cardinality(L))),
      Times100(FracOver(PrfSum(r, L, 2), Cardinality(L))),
      Times100(FracOver(PrfSum(r, L, 3), Cardinality(L)))>>

\* A slip that averages over the label 0 ("no item") as well.
ComputeMetricsWithNoItemLabel(r) ==
    MicroMacro(r, {TypeIndex(t) : t \in r.types} \cup {0})

\* _compute_metrics: micro precision, recall and F1 over the labels of the
\* types seen, then the macro ones (the mean over the labels of the per-label
\* values), all times 100. What the library returns for an empty list of
\* labels is not in the source; the result is then left empty.
ComputeMetrics(r) ==
    IF r.types = {} THEN <<>> ELSE MicroMacro(r, {TypeIndex(t) : t \in r.types})

\* ------------------------------------------------------------ beam selector
\* The square root of a perfect square.
ISqrt(a) == CHOOSE r \in 0..a : r * r = a

\* x / torch.sqrt(torch.abs(x)) for a logit x # 0 whose magnitude is a perfect
\* square (0 / 0 is not a number; the logits drawn are never 0).
Stabilize(x) == IF x > 0 THEN x \div ISqrt(x) ELSE -((-x) \div ISqrt(-x))

\* batch_rel_logits[i] / torch.sqrt(torch.abs(batch_rel_logits[i])) for one
\* candidate: a tensor indexed by <<label, i, j>>.
StabilizeAll(logits) == [e \in DOMAIN logits |-> Stabilize(logits[e])]

\* The labels (first index) and the table size of a [label, i, j] tensor.
LabelsOf(t) == {e[1] : e \in DOMAIN t}
SizeOf(t) == Max({e[2] : e \in DOMAIN t}) + 1

\* t.max(dim=<label>): per cell the largest entry and the first label that
\* attains it.
MaxValues(t) ==
    [c \in Cells(SizeOf(t)) |-> Max({t[<<l, c[1], c[2]>>] : l \in LabelsOf(t)})]
MaxIndices(t) ==
    [c \in Cells(SizeOf(t)) |->
        Min({l \in LabelsOf(t) :
                t[<<l, c[1], c[2]>>] = Max({t[<<k, c[1], c[2]>>] : k \in LabelsOf(t)})})]

\* m.sum(-1).sum(-1) of an n x n tensor from flat index idx on.
RECURSIVE SumFrom(_, _, _)
SumFrom(m, n, idx) ==
    IF idx >= n * n THEN 0
    ELSE m[<<idx \div n, idx % n>>] + SumFrom(m, n, idx + 1)

SumAll(m) == SumFrom(m, Dim(m), 0)

\* A slip that adds the relation total without the division by the length.
EntRelScoreUnscaled(entity_score, logits, length) ==
    length * (entity_score + SumAll(Triu(MaxValues(StabilizeAll(logits)), 1)))

\* entity_scores + rel_scores.triu(diagonal=1).sum(-1).sum(-1) / length for
\* one candidate, times length: candidates of a document share the length, so
\* the order of the scores is the order of these integers.
EntRelScore(entity_score, logits, length) ==
    length * entity_score + SumAll(Triu(MaxValues(StabilizeAll(logits)), 1))

\* scores.argmax(dim=0): the 0-based index of the first largest entry.
ArgMax(scores) ==
    Min({k \in 1..Len(scores) : \A j \in 1..Len(scores) : scores[j] <= scores[k]}) - 1

\* Lines 66-72 of eval_batch: the candidate selected for a document of
\* `length` words.
SelectBeam(scores, logits, length) ==
    ArgMax([k \in 1..Len(scores) |-> EntRelScore(scores[k], logits[k], length)])

\* ------------------------------------------------ span decoder on its own
RelIdle ==
    /\ right_rel_label = {}
    /\ rel_preds = <<>>
    /\ rel_scores = <<>>
    /\ pred_relations = <<>>

ScoreIdle ==
    /\ gt = <<>>
    /\ pred = <<>>
    /\ gt_flat = <<>>
    /\ pred_flat = <<>>
    /\ types_seen = {}
    /\ error = "none"
    /\ tp_counts = <<>>

BeamIdle ==
    /\ entity_scores = <<>>
    /\ rel_logits = <<>>
    /\ beam_id = 0

SettingIdle ==
    /\ arg_entity_types = TRUE
    /\ arg_score = FALSE

TrainIdle ==
    /\ train_sample_count = 0
    /\ train_batch_size = 1
    /\ epochs = 0
    /\ before_rel = <<0, 1>>
    /\ updates_epoch = 0
    /\ steps_before_rel = 0
    /\ epoch = 0
    /\ train_sampler = 0
    /\ iteration = 0
    /\ global_iteration = 0
    /\ allow_rel = FALSE
    /\ steps = <<>>

TrainerIdle ==
    /\ eval_batch_size = 0
    /\ store_examples = FALSE
    /\ sampler = <<>>
    /\ calls = <<>>
    /\ TrainIdle

EvaluatorIdle ==
    /\ documents = <<>>
    /\ sample_results = <<>>
    /\ _epoch = 0
    /\ _max_epoch = 0
    /\ _gt_entities = <<>>
    /\ _gt_relations = <<>>
    /\ _pred_entities = <<>>
    /\ _pred_relations = <<>>
    /\ _beam_ids = <<>>
    /\ bio_preds = <<>>
    /\ files = {}
    /\ bio_contents = <<>>
    /\ returned = <<>>
    /\ processed = <<>>
    /\ TrainerIdle
    /\ SettingIdle

InitSpan ==
    /\ pc = "span_input"
    /\ word_lens \in WordLens
    /\ pred_types \in [1..Len(word_lens) -> EntityLabels]
    /\ pred_score \in 0..MaxScore
    /\ token_mask = MaskOf(word_lens)
    /\ pred_entities = <<>>
    /\ RelIdle
    /\ ScoreIdle
    /\ BeamIdle
    /\ EvaluatorIdle

DecodeEntities ==
    /\ pc = "span_input"
    /\ pred_entities' = ConvertPredEntitiesEnd(pred_types, pred_score, token_mask)
    /\ pc' = "span_decoded"
    /\ UNCHANGED <<word_lens, pred_types, pred_score, token_mask,
                   relVars, scoreVars, beamVars, evaluatorVars, trainerVars,
                   settingVars, trainVars>>

NextSpan == DecodeEntities

SpecSpan == InitSpan /\ [][NextSpan]_vars

\* -------------------------------------------- relation decoder on its own
\* The decoder's inputs: the spans the span decoder produced for some label
\* sequence of the document (the labels themselves are not passed on), the
\* document's mask, the reader's direction labels, and a label table. The
\* decoder does not read the score the spans carry.
UpperCells(n) == {c \in Cells(n) : c[1] < c[2]}

\* Label tables: any labels above the diagonal, one label (noise) on and
\* below it.
RelTables(n) ==
    {[c \in Cells(n) |-> IF c[1] < c[2] THEN u[c] ELSE noise] :
        u \in [UpperCells(n) -> RelLabels], noise \in RelLabels}

\* The reader's direction labels: of the two raw labels 2t - 1 and 2t of a
\* relation type t (R-t and L-t), one reads head -> tail.
RightLabelSets ==
    {right \in SUBSET (RelLabels \ {0}) :
        \A t \in 1..NumRelTypes :
            Cardinality(right \cap {LabelsPerRelType * t - 1, LabelsPerRelType * t}) = 1}

\* Cell probabilities: one distinct value per cell.
CellScores(n) == [c \in Cells(n) |-> c[1] * n + c[2]]

InitRel ==
    /\ pc = "rel_input"
    /\ word_lens \in WordLens
    /\ pred_types = <<>>
    /\ pred_score = MaxScore
    /\ token_mask = MaskOf(word_lens)
    /\ \E types \in [1..Len(word_lens) -> EntityLabels] :
          pred_entities = ConvertPredEntitiesEnd(types, pred_score, token_mask)
    /\ right_rel_label \in RightLabelSets
    /\ rel_preds = <<>>
    /\ rel_scores = <<>>
    /\ pred_relations = <<>>
    /\ ScoreIdle
    /\ BeamIdle
    /\ EvaluatorIdle

DecodeRelations ==
    /\ pc = "rel_input"
    /\ \E table \in RelTables(Len(word_lens)) :
          /\ rel_preds' = table
          /\ rel_scores' = CellScores(Len(word_lens))
          /\ pred_relations' = ConvertPredRelations(table, CellScores(Len(word_lens)),
                                   pred_entities, token_mask, right_rel_label)
    /\ pc' = "rel_decoded"
    /\ UNCHANGED <<spanVars, right_rel_label, scoreVars, beamVars,
                   evaluatorVars, trainerVars,
                   settingVars, trainVars>>

NextRel == DecodeRelations

SpecRel == InitRel /\ [][NextRel]_vars

\* ----------------------------------------------------------- _score on its own
\* Tuples to score: two spans, the first one in every entity type.
ScoreItems == {<<1, 2, t>> : t \in 1..NumEntityTypes} \cup {<<2, 3, 1>>}

\* The tuple lists of one document, repeats allowed.
ItemLists == UNION {[1..k -> ScoreItems] : k \in 0..MaxItems}

\* Lists of documents.
DocLists == UNION {[1..k -> ItemLists] : k \in 1..MaxDocs}

DecodeIdle ==
    /\ word_lens = <<>>
    /\ pred_types = <<>>
    /\ pred_score = 0
    /\ token_mask = <<>>
    /\ pred_entities = <<>>
    /\ RelIdle

InitScore ==
    /\ pc = "score_input"
    /\ gt \in DocLists
    /\ pred \in DocLists
    /\ gt_flat = <<>>
    /\ pred_flat = <<>>
    /\ types_seen = {}
    /\ error = "none"
    /\ tp_counts = <<>>
    /\ DecodeIdle
    /\ BeamIdle
    /\ EvaluatorIdle

ScoreCall ==
    /\ pc = "score_input"
    /\ \E orders \in UnionOrders(gt, pred) :
          LET r == Score(gt, pred, orders)
          IN  /\ error' = r.error
              /\ gt_flat' = r.gt_flat
              /\ pred_flat' = r.pred_flat
              /\ types_seen' = r.types
              /\ returned' = IF r.error = "none" THEN ComputeMetrics(r) ELSE None
    /\ pc' = "scored"
    /\ UNCHANGED <<gt, pred, tp_counts, spanVars, relVars, beamVars,
                   dataVars, cacheVars, accVars, files, bio_contents,
                   trainerVars, settingVars, trainVars>>

NextScore == ScoreCall

SpecScore == InitScore /\ [][NextScore]_vars

\* ------------------------------------------------- beam selector on its own
\* The logits of one cell over the labels: one label stands out (4 against
\* 1), or all labels are equally unlikely (-1).
CellLogits ==
    {[l \in RelLabels |-> IF l = peak THEN 4 ELSE 1] : peak \in RelLabels}
    \cup {[l \in RelLabels |-> -1]}

\* The logit tensors of the candidates of a document of n words: per
\* candidate any cell logits above the diagonal, and one choice of cell logits
\* (noise) for every cell on and below it.
BeamLogits(n) ==
    {[k \in 1..BeamSize |->
        [e \in RelLabels \X (0..(n - 1)) \X (0..(n - 1)) |->
            IF e[2] < e[3] THEN u[k][<<e[2], e[3]>>][e[1]] ELSE noise[e[1]]]] :
        u \in [1..BeamSize -> [UpperCells(n) -> CellLogits]], noise \in CellLogits}

InitBeam ==
    /\ pc = "beam_input"
    /\ word_lens \in {lens \in WordLens : \A k \in 1..Len(lens) : lens[k] = 1}
    /\ entity_scores \in [1..BeamSize -> 0..MaxScore]
    /\ rel_logits \in BeamLogits(Len(word_lens))
    /\ beam_id = 0
    /\ pred_types = <<>>
    /\ pred_score = 0
    /\ token_mask = <<>>
    /\ pred_entities = <<>>
    /\ RelIdle
    /\ ScoreIdle
    /\ EvaluatorIdle

SelectBeamCall ==
    /\ pc = "beam_input"
    /\ beam_id' = SelectBeam(entity_scores, rel_logits, Len(word_lens))
    /\ pc' = "beam_selected"
    /\ UNCHANGED <<entity_scores, rel_logits, spanVars, relVars, scoreVars,
                   evaluatorVars, trainerVars,
                   settingVars, trainVars>>

NextBeam == SelectBeamCall

SpecBeam == InitBeam /\ [][NextBeam]_vars

\* ----------------------------------------------------- evaluator life cycle
\* Largest entity label the network emits in the modelled evaluation runs.
EvalMaxLabel == 2

\* Largest max_epoch an evaluator is constructed with, largest epoch of a run.
MaxEpoch == 2

\* A document: the subword count of every word, and its ground truth as the
\* tuples entity.as_tuple_span() and rel.as_tuple() return.
DocA ==
    [lens      |-> <<1, 2>>,
     entities  |-> << <<1, 2, 1>>, <<2, 4, 1>> >>,
     relations |-> << << <<1, 2, 1>>, <<2, 4, 1>>, 1 >> >>]

DocB ==
    [lens      |-> <<2>>,
     entities  |-> << <<1, 3, 1>> >>,
     relations |-> <<>>]

DocPool == {DocA, DocB}

\* The datasets: 1..MaxDocs documents of the pool.
Datasets == UNION {[1..n -> DocPool] : n \in 1..MaxDocs}

\* The reader of the modelled runs: of every relation type the R- label
\* (2t - 1) reads head -> tail.
RightLabels == {LabelsPerRelType * t - 1 : t \in 1..NumRelTypes}

\* What the network returns for a document of n words: per candidate of the
\* beam a label per word and an entity score, and the relation logits.
ModelOutputs(n) ==
    [entity_preds  : [1..BeamSize -> [1..n -> 0..EvalMaxLabel]],
     entity_scores : [1..BeamSize -> 0..MaxScore],
     rel_logits    : BeamLogits(n)]

\* torch.softmax(t, dim=<label>) followed by .max over the labels, the values:
\* the winning probability of a cell is 1 / (sum over labels l of
\* exp(t[l] - max)); it is represented by the exponents t[l] - max that
\* determine it. Softmax keeps the order of the entries of a cell, so the
\* winning label is MaxIndices(t).
SoftmaxMaxValues(t) ==
    [c \in Cells(SizeOf(t)) |->
        [l \in LabelsOf(t) |-> t[<<l, c[1], c[2]>>] - MaxValues(t)[c]]]

\* One pass of the loop of eval_batch, for one document: the selected
\* candidate, the decoded entities and relations, and the number of tags
\* update_bio_file derives (one per word).
EvalSample(entity_preds, scores, logits, mask, right) ==
    LET b == SelectBeam(scores, logits, Len(entity_preds[1]))
        rel_clf == StabilizeAll(logits[b + 1])
        ents == ConvertPredEntitiesEnd(entity_preds[b + 1], scores[b + 1], mask)
    IN  [beam_id   |-> b,
         entities  |-> ents,
         relations |-> ConvertPredRelations(MaxIndices(rel_clf), SoftmaxMaxValues(rel_clf),
                                            ents, mask, right),
         tags      |-> Len(entity_preds[b + 1])]

\* Everything one pass of the loop can yield for a document, over the outputs
\* of the network.
SampleResults(doc, right) ==
    {EvalSample(o.entity_preds, o.entity_scores, o.rel_logits, MaskOf(doc.lens), right) :
        o \in ModelOutputs(Len(doc.lens))}

\* A slip of _convert_gt that skips the documents without relations.
ConvertGtRelationsSkipEmpty(docs) ==
    LET kept == SelectSeq(docs, LAMBDA doc : doc.relations # <<>>)
    IN  [d \in 1..Len(kept) |-> kept[d].relations]

\* _convert_gt: one list per document, in document order.
ConvertGtRelations(docs) == [d \in 1..Len(docs) |-> docs[d].relations]

ConvertGtEntities(docs) == [d \in 1..Len(docs) |-> docs[d].entities]

\* A slip that records the selected candidate once per batch.
RECURSIVE EvalBatchLoopBeamOnce(_, _, _)
EvalBatchLoopBeamOnce(i, results, acc) ==
    IF i > Len(results) THEN acc
    ELSE EvalBatchLoopBeamOnce(i + 1, results,
            [beam_ids  |-> IF i = 1 THEN Append(acc.beam_ids, results[i].beam_id)
                           ELSE acc.beam_ids,
             bio       |-> Append(acc.bio, results[i].tags),
             entities  |-> Append(acc.entities, results[i].entities),
             relations |-> Append(acc.relations, results[i].relations)])

\* The loop of eval_batch from sample i on: the four appends of every pass.
RECURSIVE EvalBatchLoop(_, _, _)
EvalBatchLoop(i, results, acc) ==
    IF i > Len(results) THEN acc
    ELSE EvalBatchLoop(i + 1, results,
            [beam_ids  |-> Append(acc.beam_ids, results[i].beam_id),
             bio       |-> Append(acc.bio, results[i].tags),
             entities  |-> Append(acc.entities, results[i].entities),
             relations |-> Append(acc.relations, results[i].relations)])

\* The per-document results of a batch (a sequence of dataset positions),
\* from sample i on.
RECURSIVE BatchResultsFrom(_, _)
BatchResultsFrom(batch, i) ==
    IF i > Len(batch) THEN {<<>>}
    ELSE {<<r>> \o rest : r \in sample_results[documents[batch[i]]],
                          rest \in BatchResultsFrom(batch, i + 1)}

\* eval_batch on a batch.
DoEvalBatch(batch) ==
    /\ \E results \in BatchResultsFrom(batch, 1) :
          LET acc == EvalBatchLoop(1, results,
                        [beam_ids  |-> _beam_ids,
                         bio       |-> bio_preds,
                         entities  |-> _pred_entities,
                         relations |-> _pred_relations])
          IN  /\ _beam_ids' = acc.beam_ids
              /\ bio_preds' = acc.bio
              /\ _pred_entities' = acc.entities
              /\ _pred_relations' = acc.relations
    /\ processed' = processed \o batch
    /\ returned' = None
    /\ error' = "none"
    /\ UNCHANGED <<dataVars, cacheVars, files, bio_contents>>

\* One view of compute_scores: _convert_by_setting, then _score with its
\* call of _compute_metrics, in every order the unions can be walked in.
ScoreViews(g, p, is_entity, include_entity_types) ==
    LET c == ConvertBySetting(g, p, is_entity, include_entity_types, FALSE)
    IN  {LET r == Score(c[1], c[2], o)
         IN  [error   |-> r.error,
              metrics |-> IF r.error = "none" THEN ComputeMetrics(r) ELSE None] :
            o \in UnionOrders(c[1], c[2])}

\* _write_bio_file runs when the epoch threshold is reached.
BioFile == IF _epoch + 1 >= _max_epoch THEN {"bio"} ELSE {}

\* _write_bio_file: the sentences written to the file, each the list of its
\* lines and followed by a blank line. contents starts empty, and the loop that
\* would fill it from tokens, tags and preds is commented out.
WriteBioFile(preds) ==
    LET contents == <<>>
    IN  [s \in 1..Len(contents) |-> contents[s]]

\* The tagging file after line 139-140 of compute_scores.
BioContents == IF _epoch + 1 >= _max_epoch THEN WriteBioFile(bio_preds) ELSE bio_contents

\* compute_scores.
DoComputeScores ==
    /\ \E ner \in ScoreViews(_gt_entities, _pred_entities, TRUE, TRUE),
          rel \in ScoreViews(_gt_relations, _pred_relations, FALSE, FALSE),
          rel_ner \in ScoreViews(_gt_relations, _pred_relations, FALSE, TRUE) :
          IF ner.error # "none"
          THEN /\ error' = ner.error
               /\ returned' = None
               /\ files' = files
               /\ bio_contents' = bio_contents
          ELSE IF rel.error # "none" \/ rel_ner.error # "none"
          THEN /\ error' = "AssertionError"
               /\ returned' = None
               /\ files' = files \cup BioFile
               /\ bio_contents' = BioContents
          ELSE /\ error' = "none"
               /\ returned' = <<ner.metrics, rel.metrics, rel_ner.metrics>>
               /\ files' = files \cup BioFile \cup {"beam_ids"}
               /\ bio_contents' = BioContents
    /\ UNCHANGED <<dataVars, cacheVars, accVars>>

\* store_examples: nothing without jinja2; otherwise one example per dataset
\* document from entry i of the caches, then the example files.
DoStoreExamples ==
    /\ \E jinja2 \in BOOLEAN :
          IF ~jinja2
          THEN /\ error' = "none"
               /\ files' = files
          ELSE IF \E i \in 1..Len(documents) :
                      i > Len(_pred_entities) \/ i > Len(_pred_relations)
          THEN /\ error' = "IndexError"
               /\ files' = files
          ELSE /\ error' = "none"
               /\ files' = files \cup {"examples"}
    /\ returned' = None
    /\ UNCHANGED <<dataVars, cacheVars, accVars, bio_contents>>

\* The variables of the decoders and of _score on their own.
DecodersIdle ==
    /\ word_lens = <<>>
    /\ pred_types = <<>>
    /\ pred_score = 0
    /\ token_mask = <<>>
    /\ pred_entities = <<>>
    /\ rel_preds = <<>>
    /\ rel_scores = <<>>
    /\ pred_relations = <<>>
    /\ ScoreIdle
    /\ BeamIdle
    /\ SettingIdle

decoderVars == <<spanVars, relVars, gt, pred, gt_flat, pred_flat, types_seen, tp_counts,
                 beamVars>>

\* An evaluator and its callers: after construction the three methods are
\* called in any order. The run ends with the first exception.
Init ==
    /\ pc = "constructed"
    /\ right_rel_label = RightLabels
    /\ sample_results = [doc \in DocPool |-> SampleResults(doc, right_rel_label)]
    /\ documents \in Datasets
    /\ _epoch = 0
    /\ _max_epoch \in {0, MaxEpoch}
    /\ _gt_relations = ConvertGtRelations(documents)
    /\ _gt_entities = ConvertGtEntities(documents)
    /\ _pred_entities = <<>>
    /\ _pred_relations = <<>>
    /\ _beam_ids = <<>>
    /\ bio_preds = <<>>
    /\ files = {}
    /\ bio_contents = <<>>
    /\ returned = None
    /\ processed = <<>>
    /\ TrainerIdle
    /\ DecodersIdle

Constructed == {"constructed", "eval_batch", "compute_scores", "store_examples"}

\* The batches a caller passes: documents of the dataset, as long as the
\* evaluator holds fewer than MaxDocs predictions.
Batches ==
    UNION {[1..n -> 1..Len(documents)] : n \in 1..(MaxDocs - Len(_pred_entities))}

EvalBatch ==
    /\ pc \in Constructed
    /\ error = "none"
    /\ \E batch \in Batches : DoEvalBatch(batch)
    /\ pc' = "eval_batch"
    /\ UNCHANGED <<decoderVars, trainerVars, settingVars, trainVars>>

ComputeScores ==
    /\ pc \in Constructed
    /\ error = "none"
    /\ DoComputeScores
    /\ pc' = "compute_scores"
    /\ UNCHANGED <<decoderVars, trainerVars, settingVars, trainVars>>

StoreExamples ==
    /\ pc \in Constructed
    /\ error = "none"
    /\ DoStoreExamples
    /\ pc' = "store_examples"
    /\ UNCHANGED <<decoderVars, trainerVars, settingVars, trainVars>>

Next == EvalBatch \/ ComputeScores \/ StoreExamples

Spec == Init /\ [][Next]_vars

\* ------------------------------------------------------ TableFTrainer._eval
\* The batches of the evaluation sampler over n documents: consecutive
\* documents in dataset order, size at a time.
RECURSIVE SamplerFrom(_, _, _)
SamplerFrom(first, n, size) ==
    IF first > n THEN <<>>
    ELSE <<[k \in 1..Min({size, n - first + 1}) |-> first + k - 1]>>
         \o SamplerFrom(first + size, n, size)

CreateEvalSampler(n, size) == SamplerFrom(1, n, size)

\* A slip that leaves the loop with one batch still to come.
LoopExhaustedEarly(batches) == Len(batches) <= 1

\* The for loop over the sampler ends when the sampler yields no more batch.
LoopExhausted(batches) == batches = <<>>

InitEval ==
    /\ pc = "eval_start"
    /\ right_rel_label = RightLabels
    /\ sample_results = [doc \in DocPool |-> SampleResults(doc, right_rel_label)]
    /\ documents \in Datasets
    /\ _epoch \in {0, MaxEpoch}
    /\ _max_epoch = 0
    /\ _gt_relations = <<>>
    /\ _gt_entities = <<>>
    /\ _pred_entities = <<>>
    /\ _pred_relations = <<>>
    /\ _beam_ids = <<>>
    /\ bio_preds = <<>>
    /\ files = {}
    /\ bio_contents = <<>>
    /\ returned = None
    /\ processed = <<>>
    /\ eval_batch_size \in 1..MaxDocs
    /\ store_examples \in BOOLEAN
    /\ sampler = <<>>
    /\ calls = <<>>
    /\ TrainIdle
    /\ DecodersIdle

\* Lines 285-292: the evaluator is constructed, the sampler created.
EvalCreate ==
    /\ pc = "eval_start"
    /\ _gt_relations' = ConvertGtRelations(documents)
    /\ _gt_entities' = ConvertGtEntities(documents)
    /\ sampler' = CreateEvalSampler(Len(documents), eval_batch_size)
    /\ pc' = "eval_loop"
    /\ UNCHANGED <<dataVars, accVars, files, bio_contents, returned, error, decoderVars,
                   eval_batch_size, store_examples, calls, settingVars, trainVars>>

\* Lines 299-309: one pass of the loop over the sampler.
EvalLoopBatch ==
    /\ pc = "eval_loop"
    /\ ~LoopExhausted(sampler)
    /\ DoEvalBatch(Head(sampler))
    /\ sampler' = Tail(sampler)
    /\ calls' = Append(calls, "eval_batch")
    /\ pc' = "eval_loop"
    /\ UNCHANGED <<decoderVars, eval_batch_size, store_examples, settingVars, trainVars>>

\* Line 313, after the loop.
EvalCompute ==
    /\ pc = "eval_loop"
    /\ LoopExhausted(sampler)
    /\ DoComputeScores
    /\ calls' = Append(calls, "compute_scores")
    /\ pc' = IF error' = "none" THEN "eval_computed" ELSE "eval_failed"
    /\ UNCHANGED <<decoderVars, eval_batch_size, store_examples, sampler,
                   settingVars, trainVars>>

\* Lines 317-318.
EvalStore ==
    /\ pc = "eval_computed"
    /\ store_examples
    /\ DoStoreExamples
    /\ calls' = Append(calls, "store_examples")
    /\ pc' = IF error' = "none" THEN "eval_done" ELSE "eval_failed"
    /\ UNCHANGED <<decoderVars, eval_batch_size, store_examples, sampler,
                   settingVars, trainVars>>

\* Line 320 without the examples.
EvalReturn ==
    /\ pc = "eval_computed"
    /\ ~store_examples
    /\ pc' = "eval_done"
    /\ UNCHANGED <<evaluatorVars, error, decoderVars, trainerVars, settingVars, trainVars>>

NextEval == EvalCreate \/ EvalLoopBatch \/ EvalCompute \/ EvalStore \/ EvalReturn

SpecEval == InitEval /\ [][NextEval]_vars

\* C1: every span the end-anchored decoder emits has start < end, and the spans
\* come out left to right without overlap: each span starts at or after the
\* end of the span emitted before it.
C1_SpansOrderedDisjoint ==
    pc = "span_decoded" =>
        /\ \A k \in 1..Len(pred_entities) : pred_entities[k][1] < pred_entities[k][2]
        /\ \A k \in 1..(Len(pred_entities) - 1) :
              pred_entities[k][2] <= pred_entities[k + 1][1]

\* Two spans were emitted, the second one over more than one subword.
C1_Witness ==
    /\ pc = "span_decoded"
    /\ Len(pred_entities) >= 2
    /\ pred_entities[2][2] - pred_entities[2][1] >= 2

\* ------------------------------------------------ relation decoder claims
\* The subword columns of the word with 0-based index w.
WordCols(w) == token_mask[w + 1]

\* Word w lies inside span e = (start, end, ...): all its subwords do.
Covers(e, w) == \A c \in WordCols(w) : e[1] <= c /\ c < e[2]

\* Word w is the last word of span e.
EndsAt(e, w) == Max(WordCols(w)) = e[2] - 1

Triple(e) == <<e[1], e[2], e[3]>>

\* The nonzero cells above the diagonal of the label table.
LiveCells == {c \in UpperCells(Len(word_lens)) : rel_preds[c] # 0}

\* The relations emitted for cell c: cell scores are pairwise distinct, so the
\* score of a relation names the cell it came from.
EmittedFor(c) == {k \in 1..Len(pred_relations) : pred_relations[k][4] = rel_scores[c]}

Resolve(w) == FindEntity(w + 1, token_mask, pred_entities)

Decoded == {pred_entities[k] : k \in 1..Len(pred_entities)}

\* C2 as stated: an endpoint word that lies anywhere inside a decoded span
\* (first, middle or last word) resolves to that span.
C2_AsStated ==
    pc = "rel_decoded" =>
        \A c \in LiveCells : \A w \in {c[1], c[2]} : \A e \in Decoded :
            Covers(e, w) => Resolve(w) = e

\* C2 (amended): an endpoint word resolves to the decoded span that ends at it:
\* if the word is the last word of a decoded span, _find_entity returns that
\* span, and a cell whose two words both end spans yields a relation; a word
\* that is the first or a middle word of a span resolves to no entity, and the
\* cell yields no relation.
C2_ResolvesByEnd ==
    pc = "rel_decoded" =>
        \A c \in LiveCells :
            /\ \A w \in {c[1], c[2]} : \A e \in Decoded :
                  /\ EndsAt(e, w) => Resolve(w) = e
                  /\ (Covers(e, w) /\ ~EndsAt(e, w)) =>
                        /\ Resolve(w) = None
                        /\ EmittedFor(c) = {}
            /\ (\A w \in {c[1], c[2]} : \E e \in Decoded : EndsAt(e, w)) =>
                  EmittedFor(c) # {}

\* A cell joins the last word of a two-word span to the last word of another
\* span and a relation came out of it.
C2_Witness ==
    /\ pc = "rel_decoded"
    /\ \E c \in LiveCells :
          /\ EmittedFor(c) # {}
          /\ \E e \in Decoded : \E w \in {c[1], c[2]} :
                EndsAt(e, w) /\ \E v \in 0..(Len(word_lens) - 1) : v # w /\ Covers(e, v)

\* C8: every emitted relation has head and tail triples equal to (start, end,
\* type) of decoded entities; a nonzero cell with an unresolved head or tail
\* emits nothing, and every cell whose two endpoints resolve emits exactly one
\* relation, whatever happened to the cells before it.
C8_EndpointsAreDecodedEntities ==
    pc = "rel_decoded" =>
        /\ \A k \in 1..Len(pred_relations) :
              /\ \E e \in Decoded : pred_relations[k][1] = Triple(e)
              /\ \E e \in Decoded : pred_relations[k][2] = Triple(e)
              /\ \E c \in LiveCells : k \in EmittedFor(c)
        /\ \A c \in LiveCells :
              IF Resolve(c[1]) = None \/ Resolve(c[2]) = None
              THEN EmittedFor(c) = {}
              ELSE /\ Cardinality(EmittedFor(c)) = 1
                   /\ \A k \in EmittedFor(c) :
                         {pred_relations[k][1], pred_relations[k][2]}
                            = {Triple(Resolve(c[1])), Triple(Resolve(c[2]))}

\* A nonzero cell was dropped for an unresolved endpoint and a later cell (in
\* row-major order) was still decoded.
C8_Witness ==
    /\ pc = "rel_decoded"
    /\ \E c, d \in LiveCells :
          /\ c[1] < d[1] \/ (c[1] = d[1] /\ c[2] < d[2])
          /\ Resolve(c[1]) = None \/ Resolve(c[2]) = None
          /\ EmittedFor(d) # {}

\* Tables that agree with m above the diagonal: one entry on or below the
\* diagonal changed, everything on and below it cleared, and the upper
\* triangle mirrored into the lower one.
SameUpperVariants(m) ==
    {[m EXCEPT ![c] = v] : c \in {d \in DOMAIN m : d[1] >= d[2]}, v \in RelLabels}
    \cup {[c \in DOMAIN m |-> IF c[1] < c[2] THEN m[c] ELSE 0]}
    \cup {[c \in DOMAIN m |-> IF c[1] <= c[2] THEN m[c] ELSE m[<<c[2], c[1]>>]]}

\* C9: the output depends on the cells (i, j), i < j, only: it is the same for
\* the tables that agree with the given one above the diagonal, and it holds
\* at most one relation per nonzero cell above the diagonal.
C9_OnlyUpperTriangle ==
    pc = "rel_decoded" =>
        /\ \A m \in SameUpperVariants(rel_preds) :
              ConvertPredRelations(m, rel_scores, pred_entities, token_mask,
                                   right_rel_label) = pred_relations
        /\ \A k \in 1..Len(pred_relations) : \E c \in LiveCells : k \in EmittedFor(c)
        /\ \A c \in LiveCells : Cardinality(EmittedFor(c)) <= 1

\* The table is nonzero on and below the diagonal at words that end decoded
\* spans, and a relation was emitted from above the diagonal.
C9_Witness ==
    /\ pc = "rel_decoded"
    /\ pred_relations # <<>>
    /\ \E c \in DOMAIN rel_preds :
          /\ c[1] > c[2]
          /\ rel_preds[c] # 0
          /\ rel_preds[<<c[1], c[1]>>] # 0
          /\ Resolve(c[1]) # None
          /\ Resolve(c[2]) # None

\* ------------------------------------------------------------ _score claims
UnionOf(d) == Members(gt[d]) \cup Members(pred[d])

\* Where the positions of document d start in the streams.
RECURSIVE Offset(_)
Offset(d) == IF d <= 1 THEN 0 ELSE Offset(d - 1) + Cardinality(UnionOf(d - 1))

\* The stream positions of document d.
Segment(d) == (Offset(d) + 1)..(Offset(d) + Cardinality(UnionOf(d)))

\* The labels a tuple of document d is due in the two streams.
Due(s, d) ==
    <<IF s \in Members(gt[d]) THEN s[3] ELSE 0,
      IF s \in Members(pred[d]) THEN s[3] ELSE 0>>

\* C4: per document, one position in both streams per member of the union of
\* ground truth and predictions: the streams are equally long, and within the
\* positions of a document every pair of labels occurs as often as the union
\* has tuples due that pair (type index on the side the tuple is in, 0 on the
\* other). No position carries two different nonzero labels.
C4_OnePositionPerUnionMember ==
    (pc = "scored" /\ error = "none") =>
        /\ Len(gt_flat) = Len(pred_flat)
        /\ Len(gt_flat) = Offset(Len(gt) + 1)
        /\ \A d \in 1..Len(gt) :
              \A g \in 0..NumEntityTypes, p \in 0..NumEntityTypes :
                  Cardinality({k \in Segment(d) : gt_flat[k] = g /\ pred_flat[k] = p})
                    = Cardinality({s \in UnionOf(d) : Due(s, d) = <<g, p>>})
        /\ \A k \in 1..Len(gt_flat) :
              gt_flat[k] = 0 \/ pred_flat[k] = 0 \/ gt_flat[k] = pred_flat[k]

\* Two documents; in one of them a ground-truth tuple is listed twice, one
\* tuple is matched, one missed and one predicted in vain.
C4_Witness ==
    /\ pc = "scored"
    /\ error = "none"
    /\ Len(gt) = 2
    /\ \E d \in 1..2 : Len(gt[d]) > Cardinality(Members(gt[d]))
    /\ \E k \in 1..Len(gt_flat) : gt_flat[k] # 0 /\ pred_flat[k] # 0
    /\ \E k \in 1..Len(gt_flat) : gt_flat[k] # 0 /\ pred_flat[k] = 0
    /\ \E k \in 1..Len(gt_flat) : gt_flat[k] = 0 /\ pred_flat[k] # 0

\* ------------------------------------------------------ beam selector claims
\* The largest stabilized logit of cell c of candidate k.
CellBest(k, c) ==
    Max({Stabilize(rel_logits[k][<<l, c[1], c[2]>>]) : l \in RelLabels})

\* The sum of CellBest over the cells of S.
RECURSIVE BestSum(_, _)
BestSum(k, S) ==
    IF S = {} THEN 0
    ELSE LET c == CHOOSE x \in S : TRUE
         IN  CellBest(k, c) + BestSum(k, S \ {c})

\* The combined score of candidate k, times the sequence length.
Combined(k) ==
    Len(word_lens) * entity_scores[k] + BestSum(k, UpperCells(Len(word_lens)))

\* C10: the selected beam index is the lowest index among the candidates with
\* the largest combined score (entity score plus the per-cell maxima above
\* the diagonal, summed and divided by the sequence length); of two
\* candidates with the same relation scores the one with the strictly lower
\* entity score is not selected.
C10_LowestIndexOfBest ==
    pc = "beam_selected" =>
        /\ \A k \in 1..BeamSize : Combined(k) <= Combined(beam_id + 1)
        /\ \A k \in 1..beam_id : Combined(k) < Combined(beam_id + 1)
        /\ \A k, j \in 1..BeamSize :
              (StabilizeAll(rel_logits[k]) = StabilizeAll(rel_logits[j])
                  /\ entity_scores[k] > entity_scores[j]) => beam_id + 1 # j

\* The second candidate wins on relation scores against a higher entity
\* score of the first, in a table with more than one cell above the diagonal
\* and nonzero logits below it.
C10_Witness ==
    /\ pc = "beam_selected"
    /\ beam_id = 1
    /\ Len(word_lens) = 3
    /\ entity_scores[1] > entity_scores[2]
    /\ rel_logits[1][<<0, 1, 0>>] = 4

\* Two candidates tie on the combined score with different entity scores and
\* the first is selected.
C10_WitnessTie ==
    /\ pc = "beam_selected"
    /\ beam_id = 0
    /\ Combined(1) = Combined(2)
    /\ entity_scores[1] # entity_scores[2]

\* -------------------------------------------------------- life cycle claims
\* a is an initial part of b.
IsPrefix(a, b) == Len(a) <= Len(b) /\ SubSeq(b, 1, Len(a)) = a

\* Entry k of the three prediction lists is a result of eval_batch's loop for
\* document doc.
EntryIsFor(k, doc) ==
    \E r \in sample_results[doc] :
        /\ r.beam_id = _beam_ids[k]
        /\ r.entities = _pred_entities[k]
        /\ r.relations = _pred_relations[k]

\* C3 as stated: when compute_scores has run on an evaluator that holds
\* predictions, but not as many prediction lists as cached ground-truth
\* lists, the call ended in an assertion error.
C3_AsStated ==
    (/\ pc = "compute_scores"
     /\ _pred_entities # <<>>
     /\ Len(_pred_entities) # Len(_gt_entities)) => error = "AssertionError"

\* C5: the three prediction lists are as long as the sequence of documents
\* processed so far (every eval_batch call adds the documents of its batch to
\* that sequence, in batch order), entry k is a prediction for the k-th
\* processed document, and when the documents were processed in dataset order
\* entry k stands beside the ground truth of the same document.
C5_OneEntryPerProcessedDocument ==
    /\ Len(_pred_entities) = Len(processed)
    /\ Len(_pred_relations) = Len(processed)
    /\ Len(_beam_ids) = Len(processed)
    /\ \A k \in 1..Len(processed) : EntryIsFor(k, documents[processed[k]])
    /\ (\A k \in 1..Len(processed) : processed[k] = k) =>
          \A k \in 1..Len(processed) :
              /\ k <= Len(_gt_entities)
              /\ _gt_entities[k] = documents[k].entities
              /\ _gt_relations[k] = documents[k].relations
              /\ EntryIsFor(k, documents[k])

\* Two different documents were processed in dataset order, each with a
\* non-empty prediction.
C5_Witness ==
    /\ pc = "eval_batch"
    /\ documents = <<DocA, DocB>>
    /\ processed = <<1, 2>>
    /\ _pred_relations[1] # <<>>
    /\ _pred_entities[2] # <<>>
    /\ _beam_ids[2] = 1

\* The ground-truth cache holds one list per dataset document, in order.
GtCacheHoldsDataset ==
    /\ Len(_gt_entities) = Len(documents)
    /\ Len(_gt_relations) = Len(documents)
    /\ \A d \in 1..Len(documents) :
          /\ _gt_entities[d] = documents[d].entities
          /\ _gt_relations[d] = documents[d].relations

\* A step leaves the ground-truth cache as it is and every prediction list
\* already appended in place and unchanged.
Frozen ==
    /\ _gt_entities' = _gt_entities
    /\ _gt_relations' = _gt_relations
    /\ IsPrefix(_pred_entities, _pred_entities')
    /\ IsPrefix(_pred_relations, _pred_relations')

\* C6: after construction the ground-truth cache holds one list per dataset
\* document in document order, and no call of eval_batch, compute_scores or
\* store_examples, in whatever order, changes the cache or a prediction list
\* appended earlier.
C6_CachesFrozen ==
    /\ [](pc \in Constructed => GtCacheHoldsDataset)
    /\ [][Frozen]_vars

\* All three methods have run on an evaluator holding two predictions, the
\* last of them store_examples after compute_scores.
C6_Witness ==
    /\ pc = "store_examples"
    /\ files = {"bio", "beam_ids", "examples"}
    /\ Len(documents) = 2
    /\ Len(_pred_entities) = 2
    /\ _pred_entities[1] # <<>>
    /\ _gt_relations[1] # <<>>

\* How often _eval has made a call on its evaluator.
CallCount(call) == Cardinality({k \in 1..Len(calls) : calls[k] = call})

\* C7: in a run of _eval compute_scores is called at most once, and exactly
\* once when the run is over; when it is called, eval_batch has been called
\* once for every batch of the sampler, so that every document was processed
\* once and in order, and every eval_batch call precedes it.
C7_ComputeOnceAfterAllBatches ==
    /\ CallCount("compute_scores") <= 1
    /\ pc = "eval_done" => CallCount("compute_scores") = 1
    /\ \A k \in 1..Len(calls) :
          calls[k] = "compute_scores" =>
              /\ \A j \in 1..Len(calls) : calls[j] = "eval_batch" => j < k
              /\ k - 1 = Ceil(Len(documents), eval_batch_size)
              /\ sampler = <<>>
              /\ processed = [d \in 1..Len(documents) |-> d]

\* A run over two batches that stored its examples is over.
C7_Witness ==
    /\ pc = "eval_done"
    /\ calls = <<"eval_batch", "eval_batch", "compute_scores", "store_examples">>

\* ------------------------------------------------- more span decoder claims
\* The last subword of word k (1-based) in the coordinates of the sliced mask
\* row, which drops column 0.
SlicedLast(k) == Max(token_mask[k]) - 1

\* The words whose label marks a span end: nonzero and even.
EndWords == {k \in 1..Len(pred_types) : pred_types[k] # 0 /\ pred_types[k] % 2 = 0}

\* The i-th smallest member of a set of numbers.
Nth(S, i) == CHOOSE x \in S : Cardinality({y \in S : y <= x}) = i

\* Span e = (start, end, ...) holds a subword of word k.
Touches(e, k) == \E c \in token_mask[k] : e[1] <= c /\ c < e[2]

\* The words of the trailing run of odd labels.
Trailing ==
    {k \in 1..Len(pred_types) : \A j \in k..Len(pred_types) : pred_types[j] % 2 = 1}

\* C13: every emitted span ends at a token that carries a nonzero even label,
\* and no emitted span holds a subword of a token of the trailing run of odd
\* labels.
C13_TrailingOpenSpanDropped ==
    pc = "span_decoded" =>
        \A i \in 1..Len(pred_entities) :
            /\ \E k \in EndWords : pred_entities[i][2] = SlicedLast(k) + 2
            /\ \A k \in Trailing : ~Touches(pred_entities[i], k)

\* A span was emitted and the last two tokens carry odd labels.
C13_Witness ==
    /\ pc = "span_decoded"
    /\ Len(pred_types) = 3
    /\ pred_entities # <<>>
    /\ Cardinality(Trailing) = 2

\* Word spans <<first word, last word>> of a sentence of n words, and the sets
\* of them in which no two overlap.
WordSpans(n) == {s \in (1..n) \X (1..n) : s[1] <= s[2]}

SpanSets(n) ==
    {S \in SUBSET WordSpans(n) :
        \A x, y \in S : x # y => (x[2] < y[1] \/ y[2] < x[1])}

\* Label sequence l encodes the span set S in type t: an even label of t on
\* the last word of a span, an odd label of t on its other words, 0 elsewhere.
IsEncoding(l, S, t) ==
    \A w \in 1..Len(l) :
        IF \E s \in S : s[2] = w
        THEN l[w] \in {LabelsPerEntityType * t - 2, LabelsPerEntityType * t}
        ELSE IF \E s \in S : s[1] <= w /\ w < s[2]
        THEN l[w] \in {LabelsPerEntityType * t - 3, LabelsPerEntityType * t - 1}
        ELSE l[w] = 0

\* The span tuple of word span s: from the first subword of its first word to
\* one past the last subword of its last word.
SpanTuple(s, t) ==
    <<WordStart(word_lens, s[1]), WordStart(word_lens, s[2]) + word_lens[s[2]],
      t, pred_score>>

\* C14: when the label sequence encodes a set of non-overlapping word spans in
\* one type, the decoder returns exactly the tuples of those spans.
C14_RoundTrip ==
    pc = "span_decoded" =>
        \A t \in 1..NumEntityTypes :
            \A S \in SpanSets(Len(word_lens)) :
                IsEncoding(pred_types, S, t) =>
                    /\ Len(pred_entities) = Cardinality(S)
                    /\ Members(pred_entities) = {SpanTuple(s, t) : s \in S}

\* A two-word span behind an outside token was encoded and decoded.
C14_Witness ==
    /\ pc = "span_decoded"
    /\ Len(word_lens) = 3
    /\ word_lens[1] = 2
    /\ IsEncoding(pred_types, {<<2, 3>>}, 2)
    /\ pred_entities # <<>>

\* The boundary tokens before word k: outside tokens and span ends.
Boundaries(k) == {j \in 1..(k - 1) : pred_types[j] = 0 \/ j \in EndWords}

\* The value of start when the loop reaches word k.
StartAt(k) == IF Boundaries(k) = {} THEN 1 ELSE SlicedLast(Max(Boundaries(k))) + 2

\* C18: the decoder emits one span per token with a nonzero even label L and
\* no other span; the span of such a token has type ceil(L / 4), ends at the
\* token's last subword position plus 2, and starts at the boundary left by
\* the nearest earlier span end or outside token, or at 1.
C18_OneSpanPerEndLabel ==
    pc = "span_decoded" =>
        /\ Len(pred_entities) = Cardinality(EndWords)
        /\ \A i \in 1..Len(pred_entities) :
              LET k == Nth(EndWords, i)
              IN  pred_entities[i] =
                      <<StartAt(k), SlicedLast(k) + 2,
                        Ceil(pred_types[k], LabelsPerEntityType), pred_score>>

\* Two spans, the second behind an outside token and over two subwords.
C18_Witness ==
    /\ pc = "span_decoded"
    /\ Len(pred_entities) = 2
    /\ pred_types[2] = 0
    /\ word_lens[3] = 2
    /\ pred_entities[2][3] = 2

\* --------------------------------------------- more relation decoder claims
\* C19: the relation emitted for a nonzero cell (i, j) above the diagonal with
\* raw label L has type ceil(L / 2); with L among the reader's right-direction
\* labels its head is the entity of word i and its tail the entity of word j,
\* otherwise its head is the entity of word j and its tail that of word i.
C19_TypeAndDirection ==
    pc = "rel_decoded" =>
        \A c \in LiveCells :
            (Resolve(c[1]) # None /\ Resolve(c[2]) # None) =>
                \A k \in EmittedFor(c) :
                    /\ pred_relations[k][3] = Ceil(rel_preds[c], LabelsPerRelType)
                    /\ IF rel_preds[c] \in right_rel_label
                       THEN /\ pred_relations[k][1] = Triple(Resolve(c[1]))
                            /\ pred_relations[k][2] = Triple(Resolve(c[2]))
                       ELSE /\ pred_relations[k][1] = Triple(Resolve(c[2]))
                            /\ pred_relations[k][2] = Triple(Resolve(c[1]))

\* Two cells were decoded, one in each direction, between different entities.
C19_Witness ==
    /\ pc = "rel_decoded"
    /\ \E c, d \in LiveCells :
          /\ rel_preds[c] \in right_rel_label
          /\ rel_preds[d] \notin right_rel_label
          /\ \E k \in EmittedFor(c) : pred_relations[k][1] # pred_relations[k][2]
          /\ \E k \in EmittedFor(d) :
                /\ pred_relations[k][1] # pred_relations[k][2]
                /\ pred_relations[k][1][1] > pred_relations[k][2][1]

\* ------------------------------------------- _convert_by_setting on its own
\* Relation tuples over the entities of ScoreItems: a head in every entity
\* type, one tail, every relation type.
RelationItems ==
    {<<<<1, 2, t>>, <<2, 3, 1>>, r>> : t \in 1..NumEntityTypes, r \in 1..NumRelTypes}

\* The predictions of a set of items: every item with every score.
WithScores(S) == {Append(t, sc) : t \in S, sc \in 0..MaxScore}

\* Lists of up to MaxDocs documents over a set of tuples, with up to MaxItems
\* tuples in all.
ListsOver(S) ==
    LET lists == UNION {[1..k -> S] : k \in 0..MaxItems}
    IN  {g \in UNION {[1..k -> lists] : k \in 1..MaxDocs} :
            SumSeq([d \in 1..Len(g) |-> Len(g[d])]) <= MaxItems}

\* The lists a caller passes: ground truth without scores, predictions with
\* scores, entity tuples or relation tuples, of equal length or not.
InitConvert ==
    /\ \/ /\ pc = "convert_entities"
          /\ gt \in ListsOver(ScoreItems)
          /\ pred \in ListsOver(WithScores(ScoreItems))
       \/ /\ pc = "convert_relations"
          /\ gt \in ListsOver(RelationItems)
          /\ pred \in ListsOver(WithScores(RelationItems))
    /\ arg_entity_types \in BOOLEAN
    /\ arg_score \in BOOLEAN
    /\ gt_flat = <<>>
    /\ pred_flat = <<>>
    /\ types_seen = {}
    /\ error = "none"
    /\ tp_counts = <<>>
    /\ DecodeIdle
    /\ BeamIdle
    /\ documents = <<>>
    /\ sample_results = <<>>
    /\ _epoch = 0
    /\ _max_epoch = 0
    /\ _gt_entities = <<>>
    /\ _gt_relations = <<>>
    /\ _pred_entities = <<>>
    /\ _pred_relations = <<>>
    /\ _beam_ids = <<>>
    /\ bio_preds = <<>>
    /\ files = {}
    /\ bio_contents = <<>>
    /\ returned = None
    /\ processed = <<>>
    /\ TrainerIdle

\* One call of _convert_by_setting; its return value is the pair of lists.
ConvertCall ==
    /\ pc \in {"convert_entities", "convert_relations"}
    /\ returned' = ConvertBySetting(gt, pred, pc = "convert_entities",
                                    arg_entity_types, arg_score)
    /\ pc' = IF pc = "convert_entities" THEN "converted_entities"
                                        ELSE "converted_relations"
    /\ UNCHANGED <<spanVars, relVars, scoreVars, beamVars, dataVars, cacheVars,
                   accVars, files, bio_contents, trainerVars, settingVars, trainVars>>

NextConvert == ConvertCall

SpecConvert == InitConvert /\ [][NextConvert]_vars

\* ---------------------------------------------- _convert_example on its own
\* A slip that scores a document only when it has both kinds of items.
ExampleIsScoredIfBoth(g, p) == g # <<>> /\ p # <<>>

\* Line 459: if gt or pred.
ExampleIsScored(g, p) == g # <<>> \/ p # <<>>

\* Lines 466-486: the items of an example by kind; a false negative carries
\* the score -1, the others the score of the prediction.
ExampleItems(g, p) ==
    LET scores == [k \in 1..Len(p) |-> p[k][Len(p[k])]]
        preds  == [k \in 1..Len(p) |-> SubSeq(p[k], 1, Len(p[k]) - 1)]
        index(s) == Min({k \in 1..Len(preds) : preds[k] = s})
    IN  [tp |-> {<<s, scores[index(s)]>> : s \in Members(g) \cap Members(preds)},
         fn |-> {<<s, -1>> : s \in Members(g) \ Members(preds)},
         fp |-> {<<s, scores[index(s)]>> : s \in Members(preds) \ Members(g)}]

\* The documents an example is made of: a list of ground-truth tuples and a
\* list of scored predictions, of entities or of relations.
InitExample ==
    /\ \/ /\ pc = "example_entities"
          /\ gt \in ItemLists
          /\ pred \in UNION {[1..k -> WithScores(ScoreItems)] : k \in 0..MaxItems}
       \/ /\ pc = "example_relations"
          /\ gt \in UNION {[1..k -> RelationItems] : k \in 0..MaxItems}
          /\ pred \in UNION {[1..k -> WithScores(RelationItems)] : k \in 0..MaxItems}
    /\ arg_entity_types \in BOOLEAN
    /\ arg_score = TRUE
    /\ gt_flat = <<>>
    /\ pred_flat = <<>>
    /\ types_seen = {}
    /\ error = "none"
    /\ tp_counts = <<>>
    /\ DecodeIdle
    /\ BeamIdle
    /\ documents = <<>>
    /\ sample_results = <<>>
    /\ _epoch = 0
    /\ _max_epoch = 0
    /\ _gt_entities = <<>>
    /\ _gt_relations = <<>>
    /\ _pred_entities = <<>>
    /\ _pred_relations = <<>>
    /\ _beam_ids = <<>>
    /\ bio_preds = <<>>
    /\ files = {}
    /\ bio_contents = <<>>
    /\ returned = None
    /\ processed = <<>>
    /\ TrainerIdle

\* One call of _convert_example. _score leaves its label streams and types
\* behind when it is called; the return value is the dictionary.
ConvertExample ==
    /\ pc \in {"example_entities", "example_relations"}
    /\ LET c == ConvertBySetting(<<gt>>, <<pred>>, pc = "example_entities",
                                 arg_entity_types, arg_score)
           g == c[1][1]
           p == c[2][1]
           pred_s == [k \in 1..Len(p) |-> SubSeq(p[k], 1, 3)]
       IN  IF ExampleIsScored(g, p)
           THEN \E orders \in UnionOrders(<<g>>, <<pred_s>>) :
                   LET r == Score(<<g>>, <<pred_s>>, orders)
                       m == ComputeMetrics(r)
                   IN  /\ error' = r.error
                       /\ gt_flat' = r.gt_flat
                       /\ pred_flat' = r.pred_flat
                       /\ types_seen' = r.types
                       /\ returned' = [precision |-> m[1], recall |-> m[2], f1 |-> m[3]]
                                         @@ ExampleItems(g, p)
                       /\ pc' = IF pc = "example_entities" THEN "entities_scored"
                                                            ELSE "relations_scored"
           ELSE /\ returned' = [precision |-> <<100, 1>>, recall |-> <<100, 1>>,
                                f1 |-> <<100, 1>>] @@ ExampleItems(g, p)
                /\ pc' = IF pc = "example_entities" THEN "entities_default"
                                                     ELSE "relations_default"
                /\ UNCHANGED <<gt_flat, pred_flat, types_seen, error>>
    /\ UNCHANGED <<gt, pred, tp_counts, spanVars, relVars, beamVars, dataVars, cacheVars,
                   accVars, files, bio_contents, trainerVars, settingVars, trainVars>>

NextExample == ConvertExample

SpecExample == InitExample /\ [][NextExample]_vars

\* ------------------------------------------------------ TableFTrainer.train
MaxTrainDocs == 3
MaxTrainBatch == 2
MaxTrainEpochs == 3
BeforeRelDen == 4

\* The values of args.before_rel: the multiples of 1/BeforeRelDen from just
\* below 0 to just above 1.
BeforeRelValues == {<<n, BeforeRelDen>> : n \in (-1)..(BeforeRelDen + 1)}

\* int(x) of the quotient a / b with b > 0: rounds towards zero.
IntOf(a, b) == IF a >= 0 THEN a \div b ELSE -((-a) \div b)

\* The number of batches of the training sampler, created with truncate=True:
\* the incomplete last batch is dropped.
CreateTrainSampler(document_count, batch_size) == document_count \div batch_size

\* A slip that turns relation supervision on one step late.
AllowRelLate(iter, before) == iter > before

\* Lines 257-261: allow_rel of a step from global_iteration at its start.
AllowRel(iter, before) == ~(iter < before)

InitTrain ==
    /\ pc = "train"
    /\ train_sample_count \in 0..MaxTrainDocs
    /\ train_batch_size \in 1..MaxTrainBatch
    /\ epochs \in 0..MaxTrainEpochs
    /\ before_rel \in BeforeRelValues
    /\ updates_epoch = 0
    /\ steps_before_rel = 0
    /\ epoch = 0
    /\ train_sampler = 0
    /\ iteration = 0
    /\ global_iteration = 0
    /\ allow_rel = FALSE
    /\ steps = <<>>
    /\ eval_batch_size = 0
    /\ store_examples = FALSE
    /\ sampler = <<>>
    /\ calls = <<>>
    /\ documents = <<>>
    /\ sample_results = <<>>
    /\ _epoch = 0
    /\ _max_epoch = 0
    /\ _gt_entities = <<>>
    /\ _gt_relations = <<>>
    /\ _pred_entities = <<>>
    /\ _pred_relations = <<>>
    /\ _beam_ids = <<>>
    /\ bio_preds = <<>>
    /\ files = {}
    /\ bio_contents = <<>>
    /\ returned = None
    /\ processed = <<>>
    /\ DecodeIdle
    /\ ScoreIdle
    /\ BeamIdle
    /\ SettingIdle

idleVars == <<spanVars, relVars, scoreVars, beamVars, evaluatorVars, trainerVars, settingVars>>

\* train, lines 91-95.
TrainSetup ==
    /\ pc = "train"
    /\ updates_epoch' = train_sample_count \div train_batch_size
    /\ steps_before_rel' = IntOf(updates_epoch' * epochs * before_rel[1], before_rel[2])
    /\ epoch' = 0
    /\ pc' = "epochs"
    /\ UNCHANGED <<train_sample_count, train_batch_size, epochs, before_rel, train_sampler,
                   iteration, global_iteration, allow_rel, steps, idleVars>>

\* The next epoch of train's loop enters _train_epoch, lines 239-251.
TrainEpoch ==
    /\ pc = "epochs"
    /\ epoch < epochs
    /\ train_sampler' = CreateTrainSampler(train_sample_count, train_batch_size)
    /\ iteration' = 0
    /\ global_iteration' = epoch * updates_epoch
    /\ pc' = "batches"
    /\ UNCHANGED <<train_sample_count, train_batch_size, epochs, before_rel, updates_epoch,
                   steps_before_rel, epoch, allow_rel, steps, idleVars>>

\* One batch of _train_epoch, lines 253-273.
TrainStep ==
    /\ pc = "batches"
    /\ train_sampler > 0
    /\ train_sampler' = train_sampler - 1
    /\ allow_rel' = AllowRel(global_iteration, steps_before_rel)
    /\ steps' = Append(steps, [allow_rel |-> allow_rel', global_iteration |-> global_iteration])
    /\ iteration' = iteration + 1
    /\ global_iteration' = epoch * updates_epoch + iteration'
    /\ UNCHANGED <<pc, train_sample_count, train_batch_size, epochs, before_rel, updates_epoch,
                   steps_before_rel, epoch, idleVars>>

\* _train_epoch returns; the evaluation that may follow works on an evaluator
\* of its own and leaves the training variables alone.
TrainEpochReturn ==
    /\ pc = "batches"
    /\ train_sampler = 0
    /\ epoch' = epoch + 1
    /\ pc' = "epochs"
    /\ UNCHANGED <<train_sample_count, train_batch_size, epochs, before_rel, updates_epoch,
                   steps_before_rel, train_sampler, iteration, global_iteration, allow_rel,
                   steps, idleVars>>

\* The loop over the epochs is over.
TrainReturn ==
    /\ pc = "epochs"
    /\ epoch >= epochs
    /\ pc' = "trained"
    /\ UNCHANGED <<trainVars, idleVars>>

NextTrain == TrainSetup \/ TrainEpoch \/ TrainStep \/ TrainEpochReturn \/ TrainReturn

SpecTrain == InitTrain /\ [][NextTrain]_vars

\* ------------------------------ the relation views of compute_scores
\* From decoded spans to the two relation scores of one document: the relation
\* decoder, then lines 146-147 (entity types collapsed) and lines 151-152
\* (entity types kept) of compute_scores.

\* Sentences of one-subword words.
ViewWordLens == UNION {[1..n -> {1}] : n \in 1..MaxWords}

\* Label tables with labels above the diagonal only.
UpperTables(n) ==
    {[c \in Cells(n) |-> IF c[1] < c[2] THEN u[c] ELSE 0] : u \in [UpperCells(n) -> RelLabels]}

\* The members of a set of tuples as a list, in some order.
RECURSIVE ListOf(_)
ListOf(S) ==
    IF S = {} THEN <<>>
    ELSE LET x == CHOOSE y \in S : TRUE IN <<x>> \o ListOf(S \ {x})

\* The ground-truth relation lists of a document, given what was predicted
\* for it: up to MaxItems of the predicted relations, each with the predicted
\* head type or with another one.
GroundTruths(relations) ==
    LET pool == {<<<<relations[k][1][1], relations[k][1][2], t>>,
                   relations[k][2], relations[k][3]>> :
                    k \in 1..Len(relations), t \in 1..NumEntityTypes}
    IN  {ListOf(S) : S \in {T \in SUBSET pool : Cardinality(T) <= MaxItems}}

InitViews ==
    /\ pc = "views_input"
    /\ word_lens \in ViewWordLens
    /\ pred_types = <<>>
    /\ pred_score = MaxScore
    /\ token_mask = MaskOf(word_lens)
    /\ \E types \in [1..Len(word_lens) -> EntityLabels] :
          pred_entities = ConvertPredEntitiesEnd(types, pred_score, token_mask)
    /\ right_rel_label = RightLabels
    /\ rel_preds = <<>>
    /\ rel_scores = <<>>
    /\ pred_relations = <<>>
    /\ ScoreIdle
    /\ BeamIdle
    /\ EvaluatorIdle

\* _convert_pred_relations_ on the document.
ViewsDecode ==
    /\ pc = "views_input"
    /\ \E table \in UpperTables(Len(word_lens)) :
          /\ rel_preds' = table
          /\ rel_scores' = CellScores(Len(word_lens))
          /\ pred_relations' = ConvertPredRelations(table, CellScores(Len(word_lens)),
                                   pred_entities, token_mask, right_rel_label)
    /\ pc' = "views_decoded"
    /\ UNCHANGED <<spanVars, right_rel_label, scoreVars, beamVars,
                   evaluatorVars, trainerVars, settingVars, trainVars>>

\* _convert_by_setting and _score on lists g and p under a setting. The label
\* streams are local to the call; the history keeps the number of positions
\* that carry the same nonzero label on both sides.
ScoreView(g, p, setting) ==
    LET c == ConvertBySetting(g, p, FALSE, setting, FALSE)
    IN  \E orders \in UnionOrders(c[1], c[2]) :
           LET r == Score(c[1], c[2], orders)
           IN  /\ error' = r.error
               /\ returned' = IF r.error = "none" THEN ComputeMetrics(r) ELSE None
               /\ tp_counts' = Append(tp_counts,
                      [include_entity_types |-> setting,
                       tp |-> TruePositives(r, {TypeIndex(t) : t \in r.types})])

\* Lines 146-147, on the document's ground truth and its decoded relations.
ScoreWithoutNer ==
    /\ pc = "views_decoded"
    /\ \E g \in GroundTruths(pred_relations) :
          /\ gt' = <<g>>
          /\ pred' = <<pred_relations>>
          /\ ScoreView(gt', pred', FALSE)
    /\ pc' = "scored_without_ner"
    /\ UNCHANGED <<gt_flat, pred_flat, types_seen, spanVars, relVars, beamVars, dataVars,
                   cacheVars, accVars, files, bio_contents, trainerVars, settingVars,
                   trainVars>>

\* Lines 151-152, on the same lists.
ScoreWithNer ==
    /\ pc = "scored_without_ner"
    /\ error = "none"
    /\ ScoreView(gt, pred, TRUE)
    /\ pc' = "scored_with_ner"
    /\ UNCHANGED <<gt, pred, gt_flat, pred_flat, types_seen, spanVars, relVars, beamVars,
                   dataVars, cacheVars, accVars, files, bio_contents, trainerVars,
                   settingVars, trainVars>>

NextViews == ViewsDecode \/ ScoreWithoutNer \/ ScoreWithNer

SpecViews == InitViews /\ [][NextViews]_vars

\* ------------------------------------------------------- metric value claims
\* The first three fields of every tuple of a list, as a set: the items a
\* prediction list stands for once its scores are removed.
Unscored(list) == {SubSeq(list[k], 1, 3) : k \in 1..Len(list)}

\* Every document has a prediction and the prediction set of every document
\* equals its ground-truth set, in the entities and in the relations.
PerfectPrediction ==
    /\ Len(_pred_entities) = Len(documents)
    /\ Len(_pred_relations) = Len(documents)
    /\ \A d \in 1..Len(documents) :
          /\ Unscored(_pred_entities[d]) = Members(_gt_entities[d])
          /\ Unscored(_pred_relations[d]) = Members(_gt_relations[d])

AllHundred == <<<<100, 1>>, <<100, 1>>, <<100, 1>>, <<100, 1>>, <<100, 1>>, <<100, 1>>>>

SomeItem(g) == \E d \in 1..Len(g) : g[d] # <<>>

RECURSIVE ItemCount(_)
ItemCount(g) ==
    IF g = <<>> THEN 0 ELSE Cardinality(Members(Head(g))) + ItemCount(Tail(g))

\* No document has an item both in its ground truth and in its prediction.
DisjointSamples ==
    \A d \in 1..ZipLen(gt, pred) : Members(gt[d]) \cap Members(pred[d]) = {}

NonZero(flat) == {k \in 1..Len(flat) : flat[k] # 0}

\* C12: when _score has returned on ground truth and predictions that are
\* disjoint in every document and both non-empty somewhere, no position of the
\* flattened streams carries a label on both sides (no true positive), every
\* ground-truth item is a position with a label on the ground-truth side only
\* (false negative), every prediction is a position with a label on the
\* prediction side only (false positive), and micro and macro precision and
\* recall are 0.
C12_DisjointScoresZero ==
    (pc = "scored" /\ error = "none" /\ DisjointSamples
        /\ SomeItem(gt) /\ SomeItem(pred))
        => /\ NonZero(gt_flat) \cap NonZero(pred_flat) = {}
           /\ Cardinality(NonZero(gt_flat)) = ItemCount(gt)
           /\ Cardinality(NonZero(pred_flat)) = ItemCount(pred)
           /\ returned[1] = <<0, 1>> /\ returned[2] = <<0, 1>>
           /\ returned[4] = <<0, 1>> /\ returned[5] = <<0, 1>>

\* _score has returned on two documents, one of which has both a ground-truth
\* item and a different predicted item.
C12_Witness ==
    /\ pc = "scored"
    /\ error = "none"
    /\ DisjointSamples
    /\ Len(gt) = 2
    /\ \E d \in 1..Len(gt) : gt[d] # <<>> /\ pred[d] # <<>>

\* ------------------------------------------------------ conversion claims
\* The two lists a call of _convert_by_setting was given.
ConvertInput == <<gt, pred>>

\* Span bounds kept, entity type replaced by the pseudo-type.
Collapsed(e, c) == c[1] = e[1] /\ c[2] = e[2] /\ c[3] = PseudoEntityType

\* C15: after _convert_by_setting, every tuple of the first
\* min(len(gt), len(pred)) documents of both lists is converted in place. With
\* include_entity_types false, an entity tuple keeps its span bounds and gets
\* the pseudo-type, and a relation tuple keeps the span bounds of head and
\* tail and its relation type and gets the pseudo-type in head and tail; with
\* include_entity_types true the first three fields are unchanged. With
\* include_score false every converted tuple has exactly three fields, so a
\* prediction whose first three fields are a ground-truth item of its document
\* is, converted, a member of the converted ground truth whatever its score.
C15_ConvertBySetting ==
    pc \in {"converted_entities", "converted_relations"}
        => /\ \A side \in 1..2 :
                /\ Len(returned[side]) = ZipLen(gt, pred)
                /\ \A d \in 1..ZipLen(gt, pred) :
                      /\ Len(returned[side][d]) = Len(ConvertInput[side][d])
                      /\ \A k \in 1..Len(ConvertInput[side][d]) :
                            LET t == ConvertInput[side][d][k]
                                c == returned[side][d][k]
                            IN  /\ arg_entity_types => SubSeq(c, 1, 3) = SubSeq(t, 1, 3)
                                /\ (~arg_entity_types /\ pc = "converted_entities")
                                       => Collapsed(t, c)
                                /\ (~arg_entity_types /\ pc = "converted_relations")
                                       => /\ Collapsed(t[1], c[1])
                                          /\ Collapsed(t[2], c[2])
                                          /\ c[3] = t[3]
                                /\ ~arg_score => Len(c) = 3
           /\ ~arg_score =>
                \A d \in 1..ZipLen(gt, pred) : \A k \in 1..Len(pred[d]) :
                    SubSeq(pred[d][k], 1, 3) \in Members(gt[d])
                        => returned[2][d][k] \in Members(returned[1][d])

\* Relation lists were converted without entity types and without scores, and
\* a prediction with the highest score is a ground-truth item of its document.
C15_Witness ==
    /\ pc = "converted_relations"
    /\ ~arg_entity_types
    /\ ~arg_score
    /\ \E d \in 1..ZipLen(gt, pred) : \E k \in 1..Len(pred[d]) :
          /\ pred[d][k][4] = MaxScore
          /\ SubSeq(pred[d][k], 1, 3) \in Members(gt[d])
          /\ returned[2][d][k][1][3] = PseudoEntityType

\* ------------------------------------------------------ tagging file claim
\* C16: when compute_scores has run with epoch + 1 >= max_epoch, the tagging
\* file holds one sentence per evaluated sentence, and each sentence holds one
\* line per token (its token and tags), followed by a blank line.
C16_AsStated ==
    (pc = "compute_scores" /\ _epoch + 1 >= _max_epoch /\ "bio" \in files)
        => /\ Len(bio_contents) = Len(bio_preds)
           /\ \A s \in 1..Len(bio_preds) : Len(bio_contents[s]) = bio_preds[s]

\* ------------------------------------------------------ example export claim
\* The distinct items of a list of the example once its entity types are
\* collapsed or kept as the setting says and its scores are dropped.
ExampleSet(list) ==
    {Convert(list[k], pc \in {"entities_scored", "entities_default"},
             arg_entity_types, FALSE) : k \in 1..Len(list)}

\* C17: after _convert_example, a document with neither ground-truth items
\* nor predictions has precision, recall and F1 of 100 and _score was not
\* called (its streams are untouched); a document with a ground-truth item or
\* a prediction has the first three values _compute_metrics returns for the
\* streams _score built, and these streams hold one position per distinct
\* item of this one document.
C17_ExampleScores ==
    /\ pc \in {"entities_default", "relations_default"}
          => /\ gt = <<>> /\ pred = <<>>
             /\ returned.precision = <<100, 1>>
             /\ returned.recall = <<100, 1>>
             /\ returned.f1 = <<100, 1>>
             /\ gt_flat = <<>> /\ pred_flat = <<>> /\ types_seen = {}
    /\ pc \in {"entities_scored", "relations_scored"}
          => /\ gt # <<>> \/ pred # <<>>
             /\ LET m == ComputeMetrics([gt_flat |-> gt_flat, pred_flat |-> pred_flat,
                                         types |-> types_seen])
                IN  /\ returned.precision = m[1]
                    /\ returned.recall = m[2]
                    /\ returned.f1 = m[3]
             /\ Len(gt_flat) = Cardinality(ExampleSet(gt) \cup ExampleSet(pred))
             /\ Len(pred_flat) = Len(gt_flat)

\* An empty document got the default values.
C17_Witness ==
    /\ pc = "relations_default"
    /\ returned.f1 = <<100, 1>>

\* A document with one ground-truth item and a different prediction was scored.
C17_WitnessScored ==
    /\ pc = "entities_scored"
    /\ Len(gt) = 1
    /\ Len(pred) = 1
    /\ returned.tp = {}
    /\ returned.precision = <<0, 1>>

\* ------------------------------------------------------------ training claim
\* C20: every training step runs with relation supervision off if the global
\* iteration count at its start is below steps_before_rel and on otherwise;
\* that count is the number of steps run before it over all epochs, so once a
\* step has run with relation supervision on, no later step runs with it off.
C20_RelationSupervisionGate ==
    /\ \A k \in 1..Len(steps) :
          /\ steps[k].global_iteration = k - 1
          /\ steps[k].allow_rel = ~(steps[k].global_iteration < steps_before_rel)
    /\ \A j \in 1..Len(steps) : \A k \in j..Len(steps) :
          steps[j].allow_rel => steps[k].allow_rel

\* A run of more than one epoch in which relation supervision came on in the
\* middle of the second epoch.
C20_Witness ==
    /\ pc = "trained"
    /\ updates_epoch >= 2
    /\ steps_before_rel > updates_epoch
    /\ \E k \in 2..Len(steps) : ~steps[k - 1].allow_rel /\ steps[k].allow_rel

\* ------------------------------------------------------- span type claim
\* Words a..b form a span in the labels: every word before b from a on carries
\* an odd label of whatever type, b carries a nonzero even label, and a is the
\* first word or follows an outside token or a span end.
IsLabelledSpan(a, b) ==
    /\ a <= b
    /\ b \in EndWords
    /\ \A j \in a..(b - 1) : pred_types[j] % 2 = 1
    /\ a = 1 \/ pred_types[a - 1] = 0 \/ (a - 1) \in EndWords

\* The emitted spans that hold a subword of one of the words a..b.
SpansOver(a, b) ==
    {i \in 1..Len(pred_entities) : \E k \in a..b : Touches(pred_entities[i], k)}

\* C21: for words a..b that form a span in the labels, the decoder emits one
\* span over them: it runs from the first subword of word a to the last
\* subword of word b and has the type of the label of word b, whatever the
\* types of the odd labels of the words before b.
C21_TypeOfEndLabel ==
    pc = "span_decoded" =>
        \A a, b \in 1..Len(pred_types) :
            IsLabelledSpan(a, b) =>
                /\ Cardinality(SpansOver(a, b)) = 1
                /\ \A i \in SpansOver(a, b) :
                      pred_entities[i] =
                          <<WordStart(word_lens, a), WordStart(word_lens, b) + word_lens[b],
                            Ceil(pred_types[b], LabelsPerEntityType), pred_score>>

\* Two odd labels of the first type closed by an even label of the second
\* type gave one span of the second type over the three words.
C21_Witness ==
    /\ pc = "span_decoded"
    /\ Len(pred_types) = 3
    /\ pred_types[1] \in {1, 3}
    /\ pred_types[2] \in {1, 3}
    /\ pred_types[3] \in {6, 8}
    /\ Len(pred_entities) = 1
    /\ pred_entities[1][1] = 1
    /\ pred_entities[1][2] = SumSeq(word_lens) + 1
    /\ pred_entities[1][3] = 2

\* ------------------------------------------------- relation endpoint claim
\* The two entities a relation connects, as a set.
Ends(r) == {r[1], r[2]}

\* C22: with the entities of the span decoder, no emitted relation has the
\* same entity as head and as tail, and no two emitted relations connect the
\* same two entities, in the same direction or in opposite ones.
C22_OneRelationPerEntityPair ==
    pc = "rel_decoded" =>
        /\ \A k \in 1..Len(pred_relations) : pred_relations[k][1] # pred_relations[k][2]
        /\ \A k, m \in 1..Len(pred_relations) :
              k # m => Ends(pred_relations[k]) # Ends(pred_relations[m])

\* Two entities in three words and a label in every cell above the diagonal:
\* one relation was emitted, between the two entities.
C22_Witness ==
    /\ pc = "rel_decoded"
    /\ Len(pred_entities) = 2
    /\ Len(word_lens) = 3
    /\ Len(pred_relations) = 1
    /\ \A c \in UpperCells(Len(word_lens)) : rel_preds[c] # 0

\* ----------------------------------------------------- relation view claim
\* Relations p and g agree in spans, entity types and relation type; in spans
\* and relation type.
SameTyped(p, g) == <<p[1], p[2], p[3]>> = g

SameUntyped(p, g) ==
    /\ p[1][1] = g[1][1] /\ p[1][2] = g[1][2]
    /\ p[2][1] = g[2][1] /\ p[2][2] = g[2][2]
    /\ p[3] = g[3]

\* The predicted relations of the document that are in its ground truth with
\* entity types kept (setting TRUE) or collapsed (setting FALSE).
MatchedUnder(setting) ==
    {k \in 1..Len(pred_relations) :
        \E m \in 1..Len(gt[1]) :
            IF setting THEN SameTyped(pred_relations[k], gt[1][m])
                       ELSE SameUntyped(pred_relations[k], gt[1][m])}

\* C23: with the relations the decoders give for a document, every predicted
\* relation that is in the ground truth with entity types kept is in it with
\* entity types collapsed, each of the two scores counts one true positive
\* per predicted relation that is in the ground truth under its setting, and
\* so the score with entity types collapsed counts at least as many true
\* positives as the score with entity types kept.
C23_UntypedAtLeastTyped ==
    pc = "scored_with_ner" =>
        /\ MatchedUnder(TRUE) \subseteq MatchedUnder(FALSE)
        /\ tp_counts[1].include_entity_types = FALSE
        /\ tp_counts[2].include_entity_types = TRUE
        /\ tp_counts[2].tp = Cardinality(MatchedUnder(TRUE))
        /\ tp_counts[1].tp = Cardinality(MatchedUnder(FALSE))
        /\ tp_counts[1].tp >= tp_counts[2].tp

\* Two relations were predicted from one head; both are in the ground truth,
\* one of them with another head type: one true positive with entity types
\* kept, two with entity types collapsed.
C23_Witness ==
    /\ pc = "scored_with_ner"
    /\ Len(pred_relations) = 2
    /\ pred_relations[1][1] = pred_relations[2][1]
    /\ tp_counts[1].tp = 2
    /\ tp_counts[2].tp = 1

\* Two relations predicted from one head are both in the ground truth as
\* predicted.
C23_WitnessBoth ==
    /\ pc = "scored_with_ner"
    /\ Len(pred_relations) = 2
    /\ pred_relations[1][1] = pred_relations[2][1]
    /\ tp_counts[2].tp = 2

====
